---- MODULE Spec2Model ----
(***************************************************************************)
(* A model of the maec processing-graph kernel: the AudioModule lifecycle  *)
(* (bind, meta_start, meta_stop, meta_process), single-owner block         *)
(* transfer (get_buffer / set_buffer / create_buffer), the square          *)
(* oscillator as a source and the ModuleMixDown fan-in operator.           *)
(*                                                                         *)
(* Specifications:                                                         *)
(*   Spec      chains built at their open ends, pulled, blocks taken/set   *)
(*   SpecLife  the same chains started and stopped                         *)
(*   SpecBind  free binding and rebinding, up to MaxBinds calls            *)
(*   SpecInfo  an assembled chain whose info is reconfigured between pulls *)
(*   SpecSync  an assembled chain whose info is reconfigured, then started *)
(*   SpecMix   a ModuleMixDown with its inputs                             *)
(*   SpecUp    a ModuleMixUp whose block an owner reads, keeps and writes  *)
(*   SpecFan   a ModuleMixUp and the successors that register with it      *)
(*   SpecParam a ParamModule and its ModuleParams configured and started   *)
(*   SpecGet   a ModuleParam read by its owner                             *)
(*   SpecEnv   a ChainEnvelope given segments and pulled                   *)
(*   SpecClock a ChainEnvelope pulled, its clock read by its owner         *)
(*   SpecStart a ChainEnvelope given segments and started                  *)
(*   SpecConst a ConstantEnvelope of its own, pulled, its clock moved      *)
(*   SpecRepeat a chain behind a BufferModule, pulled again and again      *)
(*   SpecOsc   one oscillator of each type, pulled in blocks of any size   *)
(*   SpecSize  a ModuleMixDown and its inputs, each sized by its owner     *)
(*   SpecData  a WaveReader given a file and asked for its data            *)
(*   SpecLatency a LatencyModule timing operations, asked for averages     *)
(*   SpecStep  a SetValue envelope pulled on its own                       *)
(*   SpecRamp  a LinearRamp envelope pulled on its own                     *)
(*   SpecWave  a WaveReader started on well-formed and malformed files     *)
(*   SpecLength the transform length functions applied to any size         *)
(*   SpecRemain remaining_samples() at any rate and clock position         *)
(***************************************************************************)
EXTENDS Integers, Sequences, FiniteSets, TLC

\* ------------------------------------------------------------------ bounds

NumModules == 3       \* modules an owner constructs
MaxFrames == 2        \* largest out_buffer an owner configures
MaxChannels == 2      \* largest channel count an owner configures
MaxPhase == 2         \* oscillator phase up to which pulls are explored
MaxInputs == 2        \* inputs bound to one ModuleMixDown
MaxCollected == 4     \* collected blocks up to which mixdown cycles are explored
DefaultFrames == 1    \* out_buffer of a freshly constructed module (BUFF_SIZE, scaled)
MaxBinds == 2         \* bind() calls up to which free rebinding is explored
MaxOutputs == 2       \* successors registered with one ModuleMixUp
MaxCopies == 2        \* blocks an owner keeps at a time
NumParams == 2        \* ModuleParam objects an owner constructs
MaxSegments == 3      \* envelopes added to one ChainEnvelope
MaxSamples == 3       \* samples up to which a ChainEnvelope is pulled
MaxChunks == 2        \* chunks in a wave file behind its header
MaxHeaders == 4       \* chunk headers up to which a get_data() call is followed
MaxOps == 3           \* operations a LatencyModule times between two resets
TicksPerSample == 2   \* clock time of one sample (nano / sample_rate, scaled)
SampleRate == 2       \* oscillator sample_rate, in samples per second
Frequency == 1        \* oscillator frequency

Modules == 1..NumModules

\* The dynamic types derived from SourceModule: the four oscillators and the
\* BufferModule.
SourceKinds == {"source", "sine", "sawtooth", "triangle", "buffer"}

\* ModuleParam objects, numbered after the modules; a ModuleParam is a module too.
Params == (NumModules + 1)..(NumModules + NumParams)

Objects == Modules \cup Params
Null == 0             \* nullptr for a module pointer
NoChain == 0          \* nullptr for a ChainInfo pointer
Never == -1           \* the stop_time of an envelope that never ends

\* nullptr for a std::unique_ptr<AudioBuffer>
NoBlock == [frames |-> 0, channels |-> 0, data |-> << >>]

VARIABLES
    kind,              \* dynamic type of each module: "source" (a SquareOscillator),
                       \* "sine", "sawtooth", "triangle", "buffer" (a BufferModule),
                       \* "plain", "mixdown", "mixup", "parammod" (a ParamModule),
                       \* "param" (a ModuleParam)
    backward,          \* AudioModule::backward
    forward,           \* AudioModule::forward
    chain,             \* AudioModule::chain (ChainInfo*)
    info,              \* AudioModule::info (by value)
    buff,              \* AudioModule::buff
    phase,             \* oscillator phase
    gbuff,             \* BufferModule::gbuff, the block to repeat
    in,                \* ModuleMixDown::in
    buffs,             \* ModuleMixDown::buffs
    out,               \* ModuleMixUp::out
    params,            \* ParamModule::params
    value,             \* ModuleParam::value
    const_mod,         \* ModuleParam::const_mod is not nullptr
    envs,              \* ChainEnvelope: the envelopes added, in order
    current,           \* ChainEnvelope: index of the current envelope, 0 before start()
    sample,            \* ChainTimer: the sample count of the ChainEnvelope's clock
    stream,            \* every sample the ChainEnvelope has produced, in order
    live,              \* an envelope was added, or the cursor advanced by hand, after start()
    reader,            \* WaveReader: the fields start() sets, and whether its stream is open
    length,            \* the value the last length_ft() or length_ift() call returned
    remaining,         \* the value the last remaining_samples() call returned
    getter,            \* WaveReader: its stream's contents and a get_data() call's position
    lat,               \* LatencyModule: the Counter's counts, the totals, the last average
    copies,            \* the blocks an owner keeps, each with the module whose storage it shares
    default_channels,  \* the argument create_buffer() receives when called with none
    log,               \* the hooks run, and blocks moved, by the last owner call
    last,              \* the last owner call
    returned,          \* the block the last owner call returned
    returned_mod,      \* the module pointer the last owner call returned
    status,            \* "ok", or "fault" once a call dereferenced nullptr or overran
    nbinds             \* the number of bind() calls made

vars == << kind, backward, forward, chain, info, buff, phase, gbuff, in, buffs, out, copies,
           params, value, const_mod, envs, current, sample, stream, live, reader,
           length, remaining, getter, lat, default_channels, log, last, returned,
           returned_mod, status,
           nbinds >>

\* The state of the objects added to the model last, which the calls on the
\* other objects leave alone.
extra == << remaining, getter, lat >>

\* A WaveReader whose stream holds nothing, with no get_data() call running:
\* pos is the place of the stream in its contents, headers and data count the
\* chunk headers and the data chunks the call has read.
NoCall == [file |-> << >>, pos |-> 1, headers |-> 0, data |-> 0, pc |-> "idle"]

\* A LatencyModule after construction: m_processed, m_samples,
\* total_operation_time and total_operation_latency are 0. average is the
\* value the last average_time() or average_latency() call returned, failed
\* whether such a call ended the program.
NoLatency ==
    [processed |-> 0, samples |-> 0, total_time |-> 0, total_latency |-> 0,
     average |-> 0, failed |-> FALSE]

\* ------------------------------------------------------------------ helpers

Zeros(n) == [i \in 1..n |-> 0]

Ev(e, m, p) == [ev |-> e, mod |-> m, from |-> p]

Call(o, m, a, b) == [op |-> o, mod |-> m, arg |-> a, blk |-> b]

\* The part of the program state the module code reads and writes.
Cur == [backward |-> backward, forward |-> forward, chain |-> chain, info |-> info,
        buff |-> buff, phase |-> phase, gbuff |-> gbuff, in |-> in, buffs |-> buffs,
        out |-> out, copies |-> copies, value |-> value, const_mod |-> const_mod,
        log |-> << >>, status |-> "ok", ret |-> NoBlock, rmod |-> Null, rshared |-> Null]

Install(s) ==
    /\ backward' = s.backward
    /\ forward' = s.forward
    /\ chain' = s.chain
    /\ info' = s.info
    /\ buff' = s.buff
    /\ phase' = s.phase
    /\ gbuff' = s.gbuff
    /\ in' = s.in
    /\ buffs' = s.buffs
    /\ out' = s.out
    /\ copies' = s.copies
    /\ value' = s.value
    /\ const_mod' = s.const_mod
    /\ log' = s.log
    /\ status' = s.status
    /\ returned' = s.ret
    /\ returned_mod' = s.rmod
    /\ UNCHANGED << kind, params, default_channels, envs, current, sample, stream, live,
                    reader, length, extra >>

Fault(s) == [s EXCEPT !.status = "fault"]

Logged(s, e) == [s EXCEPT !.log = Append(@, e)]

\* ------------------------------------------------------------------ blocks

\* AudioModule::set_buffer: this->buff = std::move(inbuff)
set_buffer(s, m, b) == [s EXCEPT !.buff[m] = b]

\* create_buffer that sizes every block as a freshly constructed module would.
create_buffer_default_size(s, m, channels) ==
    [frames |-> DefaultFrames, channels |-> channels, data |-> Zeros(DefaultFrames * channels)]

\* AudioModule::create_buffer(int channels): a zero-initialised block of
\* info.out_buffer frames and `channels` channels.
create_buffer(s, m, channels) ==
    [frames |-> s.info[m].out_buffer, channels |-> channels,
     data |-> Zeros(s.info[m].out_buffer * channels)]

\* get_buffer that hands out the block and keeps it.
get_buffer_keeps(s, m) == [s EXCEPT !.ret = s.buff[m]]

\* AudioModule::get_buffer: return std::move(this->buff); the moved-from
\* unique_ptr is null. The block comes back in .ret, in storage no module holds.
AudioModule_get_buffer(s, m) ==
    [s EXCEPT !.ret = s.buff[m], !.buff[m] = NoBlock, !.rshared = Null]

\* A mix-up whose get_buffer moves the retained block out, as any module's does.
ModuleMixUp_get_buffer_consumes(s, m) ==
    [s EXCEPT !.ret = s.buff[m], !.buff[m] = NoBlock, !.rshared = Null]

\* A mix-up whose get_buffer hands out the retained block's own storage.
ModuleMixUp_get_buffer_shared(s, m) ==
    IF s.buff[m] = NoBlock THEN Fault(s)
    ELSE [s EXCEPT !.ret = s.buff[m], !.rshared = m]

\* ModuleMixUp::get_buffer: tbuff = create_buffer(); std::copy of the retained
\* block's cells into tbuff from its first cell on; tbuff is returned and the
\* retained block stays. Reading a null buff, or copying more cells than tbuff
\* has, is a fault.
ModuleMixUp_get_buffer(s, m) ==
    LET tbuff == create_buffer(s, m, default_channels)
        held == s.buff[m]
        n == Len(tbuff.data)
    IN IF held = NoBlock \/ Len(held.data) > n THEN Fault(s)
       ELSE [s EXCEPT !.ret = [tbuff EXCEPT !.data =
                                  [i \in 1..n |-> IF i <= Len(held.data) THEN held.data[i]
                                                  ELSE tbuff.data[i]]],
                      !.rshared = Null]

\* The virtual call mod->get_buffer().
get_buffer(s, m) ==
    IF kind[m] = "mixup" THEN ModuleMixUp_get_buffer(s, m) ELSE AudioModule_get_buffer(s, m)

\* ------------------------------------------------------------------ hooks

\* SquareOscillator::process, the sample written at one phase:
\* modf(frequency * phase / sample_rate) < 0.5 ? 1.0 : -1.0
SquareSample(p) == IF 2 * ((Frequency * p) % SampleRate) < SampleRate THEN 1 ELSE -1

\* SquareOscillator::process: install a freshly created block, write one sample
\* per cell and increment phase once per sample written.
SquareOscillator_process(s, m) ==
    LET fresh == create_buffer(s, m, default_channels)
        n == Len(fresh.data)
        filled == [fresh EXCEPT !.data = [i \in 1..n |-> SquareSample(s.phase[m] + i - 1)]]
    IN [set_buffer(s, m, filled) EXCEPT !.phase[m] = @ + n]

\* The sample a SineOscillator writes at one phase,
\* sin(TWO_PI * frequency * phase / sample_rate), at the phases where the angle
\* is a whole number of quarter turns.
SineSample(p) ==
    LET q == (4 * Frequency * p) % (4 * SampleRate)
    IN CASE q = 0 \/ q = 2 * SampleRate -> 0
         [] q = SampleRate -> 1
         [] q = 3 * SampleRate -> -1

\* The sample a SawtoothOscillator writes at one phase,
\* 2 * modf(frequency * phase / sample_rate + 0.5) - 1, in units of 1 / sample_rate.
SawtoothSample(p) == ((2 * Frequency * p + SampleRate) % (2 * SampleRate)) - SampleRate

\* The sample a TriangleOscillator writes at one phase, in units of
\* 1 / sample_rate: with temp = modf(frequency * phase / sample_rate),
\* temp * 4 below 0.25, (temp - 1) * 4 above 0.75 and (0.5 - temp) * 4 between.
TriangleSample(p) ==
    LET t == (Frequency * p) % SampleRate
    IN IF 4 * t < SampleRate THEN 4 * t
       ELSE IF 4 * t > 3 * SampleRate THEN 4 * (t - SampleRate)
       ELSE 2 * SampleRate - 4 * t

\* SineOscillator::process
SineOscillator_process(s, m) ==
    LET fresh == create_buffer(s, m, default_channels)
        n == Len(fresh.data)
        filled == [fresh EXCEPT !.data = [i \in 1..n |-> SineSample(s.phase[m] + i - 1)]]
    IN [set_buffer(s, m, filled) EXCEPT !.phase[m] = @ + n]

\* A SawtoothOscillator whose phase starts from 0 in every block.
SawtoothOscillator_process_restarts(s, m) ==
    LET fresh == create_buffer(s, m, default_channels)
        n == Len(fresh.data)
        filled == [fresh EXCEPT !.data = [i \in 1..n |-> SawtoothSample(i - 1)]]
    IN [set_buffer(s, m, filled) EXCEPT !.phase[m] = n]

\* SawtoothOscillator::process
SawtoothOscillator_process(s, m) ==
    LET fresh == create_buffer(s, m, default_channels)
        n == Len(fresh.data)
        filled == [fresh EXCEPT !.data = [i \in 1..n |-> SawtoothSample(s.phase[m] + i - 1)]]
    IN [set_buffer(s, m, filled) EXCEPT !.phase[m] = @ + n]

\* TriangleOscillator::process
TriangleOscillator_process(s, m) ==
    LET fresh == create_buffer(s, m, default_channels)
        n == Len(fresh.data)
        filled == [fresh EXCEPT !.data = [i \in 1..n |-> TriangleSample(s.phase[m] + i - 1)]]
    IN [set_buffer(s, m, filled) EXCEPT !.phase[m] = @ + n]

\* BufferModule::set_rbuffer: gbuff = ibuff; get_info()->buff_size = ibuff->size()
BufferModule_set_rbuffer(s, m, ibuff) ==
    [s EXCEPT !.gbuff[m] = ibuff, !.info[m].out_buffer = Len(ibuff.data)]

\* A BufferModule that hands out the block it was given to repeat.
BufferModule_process_hands_over(s, m) ==
    IF s.gbuff[m] = NoBlock THEN Fault(s)
    ELSE [set_buffer(s, m, s.gbuff[m]) EXCEPT !.gbuff[m] = NoBlock]

\* BufferModule::process: a new block with the contents of gbuff becomes the
\* module's block; gbuff stays. Copying from a null gbuff is a fault.
BufferModule_process(s, m) ==
    IF s.gbuff[m] = NoBlock THEN Fault(s)
    ELSE set_buffer(s, m, [frames |-> s.gbuff[m].frames, channels |-> s.gbuff[m].channels,
                           data |-> [i \in 1..Len(s.gbuff[m].data) |-> s.gbuff[m].data[i]]])

\* AudioModule::process, the hook of a module that works on its block in place:
\* the block it was given stays its block.
AudioModule_process(s, m) == s

RECURSIVE SumAt(_, _)
\* The value ModuleMixDown::process accumulates into cell i: every collected
\* block that has a cell i adds it.
SumAt(bs, i) ==
    IF bs = << >> THEN 0
    ELSE (IF i <= Len(Head(bs).data) THEN Head(bs).data[i] ELSE 0) + SumAt(Tail(bs), i)

\* ModuleMixDown::process: a fresh block sized by the mixer's own info, every
\* block of buffs added into it cell by cell, installed as the mixer's block.
\* b->size() on a null entry and fbuff->at(i) past the fresh block are faults.
ModuleMixDown_process(s, m) ==
    LET fbuff == create_buffer(s, m, default_channels)
        n == Len(fbuff.data)
        bs == s.buffs[m]
        bad == \E k \in 1..Len(bs) : bs[k] = NoBlock \/ Len(bs[k].data) > n
        summed == [fbuff EXCEPT !.data = [i \in 1..n |-> SumAt(bs, i)]]
    IN IF bad THEN Fault(s) ELSE set_buffer(s, m, summed)

\* The virtual call mod->process().
process(s, m) ==
    LET t == Logged(s, Ev("process", m, Null))
    IN CASE kind[m] = "source" -> SquareOscillator_process(t, m)
         [] kind[m] = "sine" -> SineOscillator_process(t, m)
         [] kind[m] = "sawtooth" -> SawtoothOscillator_process(t, m)
         [] kind[m] = "triangle" -> TriangleOscillator_process(t, m)
         [] kind[m] = "buffer" -> BufferModule_process(t, m)
         [] kind[m] = "mixdown" -> ModuleMixDown_process(t, m)
         [] OTHER -> AudioModule_process(t, m)

\* ------------------------------------------------------------------ recursion

RECURSIVE meta_process(_, _, _)
RECURSIVE meta_start(_, _, _)
RECURSIVE meta_stop(_, _, _)
RECURSIVE meta_info_sync(_, _, _)

\* Recursion depth no chain of distinct modules exceeds.
Depth == NumModules + NumParams

\* ParamModule::start that starts its first parameter only.
ParamModule_start_first_only(s, m) ==
    IF params[m] = << >> THEN s
    ELSE IF params[m][1] = Null THEN Fault(s)
    ELSE meta_start(Logged(s, Ev("meta_start", params[m][1], m)), params[m][1], Depth)

RECURSIVE StartParams(_, _, _)
\* The loop of ParamModule::start from parameter i on: param->meta_start().
StartParams(s, m, i) ==
    IF i > Len(params[m]) \/ s.status # "ok" THEN s
    ELSE LET param == params[m][i]
         IN IF param = Null THEN Fault(s)
            ELSE StartParams(meta_start(Logged(s, Ev("meta_start", param, m)), param, Depth),
                             m, i + 1)

\* ParamModule::start: meta_start() on every parameter of the array, in order.
ParamModule_start(s, m) == StartParams(s, m, 1)

RECURSIVE StopParams(_, _, _)
\* The loop of ParamModule::stop from parameter i on: param->meta_stop().
StopParams(s, m, i) ==
    IF i > Len(params[m]) \/ s.status # "ok" THEN s
    ELSE LET param == params[m][i]
         IN IF param = Null THEN Fault(s)
            ELSE StopParams(meta_stop(Logged(s, Ev("meta_stop", param, m)), param, Depth),
                            m, i + 1)

\* ParamModule::stop: meta_stop() on every parameter of the array, in order.
ParamModule_stop(s, m) == StopParams(s, m, 1)

\* The virtual call mod->start(): the hook runs; the hook of a module that is
\* not a ParamModule does nothing else.
start(s, m) ==
    LET t == Logged(s, Ev("start", m, Null))
    IN IF kind[m] = "parammod" THEN ParamModule_start(t, m) ELSE t

\* The virtual call mod->stop().
stop(s, m) ==
    LET t == Logged(s, Ev("stop", m, Null))
    IN IF kind[m] = "parammod" THEN ParamModule_stop(t, m) ELSE t

\* The info_sync() hook of the modules modelled here does nothing but run.
info_sync(s, m) == Logged(s, Ev("info_sync", m, Null))

\* meta_process that never moves the predecessor's block into this module.
AudioModule_meta_process_no_take(s, m, fuel) ==
    LET p == s.backward[m] IN
    IF p = Null \/ fuel = 0 THEN Fault(s)
    ELSE LET s1 == meta_process(s, p, fuel - 1)
         IN IF s1.status # "ok" THEN s1 ELSE process(s1, m)

\* meta_process that runs the local hook before it pulls from the predecessor.
AudioModule_meta_process_local_first(s, m, fuel) ==
    LET p == s.backward[m] IN
    IF p = Null \/ fuel = 0 THEN Fault(s)
    ELSE LET s0 == process(s, m)
             s1 == meta_process(s0, p, fuel - 1)
             s2 == get_buffer(s1, p)
         IN IF s1.status # "ok" THEN s1
            ELSE Logged(set_buffer(s2, m, s2.ret), Ev("take", m, p))

\* AudioModule::meta_process: the predecessor's meta_process, then its block
\* moved into this module, then the local hook. A null backward pointer, or a
\* recursion that never reaches a source, is a fault.
AudioModule_meta_process(s, m, fuel) ==
    LET p == s.backward[m] IN
    IF p = Null \/ fuel = 0 THEN Fault(s)
    ELSE LET s1 == meta_process(s, p, fuel - 1)
             s2 == get_buffer(s1, p)
             s3 == Logged(set_buffer(s2, m, s2.ret), Ev("take", m, p))
         IN IF s1.status # "ok" THEN s1 ELSE process(s3, m)

\* SourceModule::meta_process: a source ends the recursion and runs its hook.
SourceModule_meta_process(s, m) == process(s, m)

RECURSIVE Collect_meta(_, _, _)
\* A collecting loop that runs each input's whole meta_process.
Collect_meta(s, m, i) ==
    IF i > Len(s.in[m]) \/ s.status # "ok" THEN s
    ELSE LET mod == s.in[m][i]
             s1 == meta_process(s, mod, NumModules)
             s2 == get_buffer(s1, mod)
             s3 == Logged([s2 EXCEPT !.buffs[m] = Append(@, s2.ret)], Ev("collect", m, mod))
         IN IF s1.status # "ok" THEN s1 ELSE Collect_meta(s3, m, i + 1)

RECURSIVE Collect(_, _, _)
\* The loop of ModuleMixDown::meta_process from input i on: the input's local
\* process() hook, then its block pushed onto buffs.
Collect(s, m, i) ==
    IF i > Len(s.in[m]) \/ s.status # "ok" THEN s
    ELSE LET mod == s.in[m][i]
             s1 == process(s, mod)
             s2 == get_buffer(s1, mod)
             s3 == Logged([s2 EXCEPT !.buffs[m] = Append(@, s2.ret)], Ev("collect", m, mod))
         IN IF s1.status # "ok" THEN s1 ELSE Collect(s3, m, i + 1)

\* ModuleMixDown::meta_process: collect from every input, then the local hook.
ModuleMixDown_meta_process(s, m) ==
    LET s1 == Collect(s, m, 1)
    IN IF s1.status # "ok" THEN s1 ELSE process(s1, m)

\* The block a ModuleParam's ConstModule produces: value in every cell of a
\* block sized by the parameter's info.
ConstBlock(s, m) ==
    LET b == create_buffer(s, m, default_channels)
    IN [b EXCEPT !.data = [i \in 1..Len(b.data) |-> s.value[m]]]

\* meta_process() of a ModuleParam: one that returns a constant takes the block
\* of its own ConstModule; one bound to a module recurses as any module does.
ModuleParam_meta_process(s, m, fuel) ==
    IF s.const_mod[m] THEN process(set_buffer(s, m, ConstBlock(s, m)), m)
    ELSE AudioModule_meta_process(s, m, fuel)

\* The virtual call mod->meta_process().
meta_process(s, m, fuel) ==
    LET t == Logged(s, Ev("meta_process", m, Null))
    IN CASE kind[m] \in SourceKinds -> SourceModule_meta_process(t, m)
         [] kind[m] = "mixdown" -> ModuleMixDown_meta_process(t, m)
         [] kind[m] = "param" -> ModuleParam_meta_process(t, m, fuel)
         [] OTHER -> AudioModule_meta_process(t, m, fuel)

\* ModuleParam::get: meta_process() on the parameter, then its block handed out.
ModuleParam_get(s, m) ==
    LET s1 == meta_process(s, m, Depth)
    IN IF s1.status # "ok" THEN s1 ELSE get_buffer(s1, m)

\* ModuleParam::set_constant: the value kept and the parameter's ConstModule made.
ModuleParam_set_constant(s, m, val) == [s EXCEPT !.value[m] = val, !.const_mod[m] = TRUE]

\* meta_start that starts this module before its predecessor.
AudioModule_meta_start_local_first(s, m, fuel) ==
    LET p == s.backward[m] IN
    IF p = Null \/ fuel = 0 THEN Fault(s)
    ELSE LET s1 == meta_start(start(s, m), p, fuel - 1)
         IN IF s1.status # "ok" THEN s1 ELSE [s1 EXCEPT !.info[m] = s1.info[p]]

\* meta_start that copies the predecessor's info before the predecessor starts.
AudioModule_meta_start_copy_first(s, m, fuel) ==
    LET p == s.backward[m] IN
    IF p = Null \/ fuel = 0 THEN Fault(s)
    ELSE LET s1 == meta_start([s EXCEPT !.info[m] = s.info[p]], p, fuel - 1)
         IN IF s1.status # "ok" THEN s1 ELSE start(s1, m)

\* AudioModule::meta_start: the predecessor's meta_start, then its info copied
\* by value, then the local start().
AudioModule_meta_start(s, m, fuel) ==
    LET p == s.backward[m] IN
    IF p = Null \/ fuel = 0 THEN Fault(s)
    ELSE LET s1 == meta_start(s, p, fuel - 1)
             s2 == [s1 EXCEPT !.info[m] = s1.info[p]]
         IN IF s1.status # "ok" THEN s1 ELSE start(s2, m)

\* SourceModule::meta_start: a source ends the recursion and runs its hook.
SourceModule_meta_start(s, m) == start(s, m)

\* meta_start() of a ModuleParam: one that returns a constant ends the recursion
\* in its own ConstModule; one bound to a module recurses as any module does.
ModuleParam_meta_start(s, m, fuel) ==
    IF s.const_mod[m] THEN start(s, m) ELSE AudioModule_meta_start(s, m, fuel)

\* The virtual call mod->meta_start().
meta_start(s, m, fuel) ==
    CASE kind[m] \in SourceKinds -> SourceModule_meta_start(s, m)
      [] kind[m] = "param" -> ModuleParam_meta_start(s, m, fuel)
      [] OTHER -> AudioModule_meta_start(s, m, fuel)

\* AudioModule::meta_stop: the predecessor's meta_stop, then the local stop().
AudioModule_meta_stop(s, m, fuel) ==
    LET p == s.backward[m] IN
    IF p = Null \/ fuel = 0 THEN Fault(s)
    ELSE LET s1 == meta_stop(s, p, fuel - 1)
         IN IF s1.status # "ok" THEN s1 ELSE stop(s1, m)

\* SourceModule::meta_stop: a source ends the recursion and runs its hook.
SourceModule_meta_stop(s, m) == stop(s, m)

\* meta_stop() of a ModuleParam.
ModuleParam_meta_stop(s, m, fuel) ==
    IF s.const_mod[m] THEN stop(s, m) ELSE AudioModule_meta_stop(s, m, fuel)

\* The virtual call mod->meta_stop().
meta_stop(s, m, fuel) ==
    CASE kind[m] \in SourceKinds -> SourceModule_meta_stop(s, m)
      [] kind[m] = "param" -> ModuleParam_meta_stop(s, m, fuel)
      [] OTHER -> AudioModule_meta_stop(s, m, fuel)

\* AudioModule::meta_info_sync: the predecessor's meta_info_sync, then its
\* descriptor reference copied into this module, then the local info_sync().
AudioModule_meta_info_sync(s, m, fuel) ==
    LET p == s.backward[m] IN
    IF p = Null \/ fuel = 0 THEN Fault(s)
    ELSE LET s1 == meta_info_sync(s, p, fuel - 1)
             s2 == [s1 EXCEPT !.chain[m] = s1.chain[p]]
         IN IF s1.status # "ok" THEN s1 ELSE info_sync(s2, m)

\* SourceModule::meta_info_sync: a source ends the recursion and runs its hook.
SourceModule_meta_info_sync(s, m) == info_sync(s, m)

\* meta_info_sync() of a ModuleParam.
ModuleParam_meta_info_sync(s, m, fuel) ==
    IF s.const_mod[m] THEN info_sync(s, m) ELSE AudioModule_meta_info_sync(s, m, fuel)

\* ModuleParam::conf_mod: block size, channels and rate copied from the owning
\* module's info, then the parameter's own chain re-synchronised.
ModuleParam_conf_mod(s, m, mod) ==
    LET s1 == Logged([s EXCEPT !.info[m] = s.info[mod]], Ev("conf_mod", m, mod))
    IN meta_info_sync(s1, m, Depth)

RECURSIVE ConfParams(_, _, _)
\* The loop of ParamModule::meta_info_sync from parameter i on:
\* param->conf_mod(this).
ConfParams(s, m, i) ==
    IF i > Len(params[m]) \/ s.status # "ok" THEN s
    ELSE LET param == params[m][i]
         IN IF param = Null THEN Fault(s)
            ELSE ConfParams(ModuleParam_conf_mod(s, param, m), m, i + 1)

\* A ParamModule that configures as a plain module does: predecessor first.
ParamModule_meta_info_sync_backward_first(s, m, fuel) ==
    LET p == s.backward[m] IN
    IF p = Null \/ fuel = 0 THEN Fault(s)
    ELSE LET s1 == meta_info_sync(s, p, fuel - 1)
         IN IF s1.status # "ok" THEN s1 ELSE ConfParams(info_sync(s1, m), m, 1)

\* ParamModule::meta_info_sync: the local info_sync(), conf_mod(this) on every
\* parameter, and the predecessor's meta_info_sync last.
ParamModule_meta_info_sync(s, m, fuel) ==
    LET s1 == info_sync(s, m)
        s2 == ConfParams(s1, m, 1)
        p == s2.backward[m]
    IN IF s2.status # "ok" THEN s2
       ELSE IF p = Null \/ fuel = 0 THEN Fault(s2)
       ELSE meta_info_sync(s2, p, fuel - 1)

\* The virtual call mod->meta_info_sync().
meta_info_sync(s, m, fuel) ==
    CASE kind[m] \in SourceKinds -> SourceModule_meta_info_sync(s, m)
      [] kind[m] = "param" -> ModuleParam_meta_info_sync(s, m, fuel)
      [] kind[m] = "parammod" -> ParamModule_meta_info_sync(s, m, fuel)
      [] OTHER -> AudioModule_meta_info_sync(s, m, fuel)

\* ------------------------------------------------------------------ binding

\* AudioModule::set_forward: this->forward = mod
AudioModule_set_forward(s, m, mod) == [s EXCEPT !.forward[m] = mod]

\* A ModuleMixUp that keeps the successor registered last only.
ModuleMixUp_set_forward_latest(s, m, mod) == [s EXCEPT !.out[m] = << mod >>]

\* ModuleMixUp::set_forward: out.push_back(mod)
ModuleMixUp_set_forward(s, m, mod) == [s EXCEPT !.out[m] = Append(@, mod)]

\* The virtual call mod->set_forward(x).
set_forward(s, m, mod) ==
    IF kind[m] = "mixup" THEN ModuleMixUp_set_forward(s, m, mod)
    ELSE AudioModule_set_forward(s, m, mod)

\* AudioModule::set_chain_info: this->chain = c
set_chain_info(s, m, c) == [s EXCEPT !.chain[m] = c]

\* bind that leaves the predecessor with the ChainInfo it had.
AudioModule_bind_no_chain(s, x, mod) ==
    LET s1 == [s EXCEPT !.backward[x] = mod]
        s2 == set_forward(s1, mod, x)
    IN [s2 EXCEPT !.rmod = mod]

\* AudioModule::bind: backward = mod; mod->set_forward(this);
\* mod->set_chain_info(this->chain); return mod
AudioModule_bind(s, x, mod) ==
    LET s1 == [s EXCEPT !.backward[x] = mod]
        s2 == set_forward(s1, mod, x)
        s3 == set_chain_info(s2, mod, s2.chain[x])
    IN [s3 EXCEPT !.rmod = mod]

\* ModuleMixDown::bind: in.push_back(mod)
ModuleMixDown_bind(s, x, mod) == [s EXCEPT !.in[x] = Append(@, mod)]

\* The call x.bind(mod) on the dynamic type of x.
bind(s, x, mod) ==
    IF kind[x] = "mixdown" THEN ModuleMixDown_bind(s, x, mod) ELSE AudioModule_bind(s, x, mod)

\* ------------------------------------------------------------------ owner calls

\* Blocks an owner can make with AudioBuffer(size, channels): zero-initialised.
OwnerBlocks == {[frames |-> DefaultFrames, channels |-> 1, data |-> Zeros(DefaultFrames)]}

\* Pulls are explored while the oscillator phases and the mixers' collected
\* blocks stay within the bounds.
WithinBounds(s) ==
    \A m \in Objects : s.phase[m] <= MaxPhase /\ Len(s.buffs[m]) <= MaxCollected

\* x.bind(m)
Bind(x, m) ==
    /\ status = "ok"
    /\ kind[x] = "mixdown" => Len(in[x]) < MaxInputs
    /\ kind[m] = "mixup" => Len(out[m]) < MaxOutputs
    /\ Install(bind(Cur, x, m))
    /\ last' = Call("bind", x, m, NoBlock)
    /\ nbinds' = nbinds + 1

\* t.meta_process()
MetaProcess(t) ==
    /\ status = "ok"
    /\ LET r == meta_process(Cur, t, NumModules)
       IN WithinBounds(r) /\ Install(r)
    /\ last' = Call("meta_process", t, Null, NoBlock)
    /\ UNCHANGED nbinds

\* t.meta_start()
MetaStart(t) ==
    /\ status = "ok"
    /\ Install(meta_start(Cur, t, Depth))
    /\ last' = Call("meta_start", t, Null, NoBlock)
    /\ UNCHANGED nbinds

\* t.meta_stop()
MetaStop(t) ==
    /\ status = "ok"
    /\ Install(meta_stop(Cur, t, Depth))
    /\ last' = Call("meta_stop", t, Null, NoBlock)
    /\ UNCHANGED nbinds

\* t.meta_info_sync()
MetaInfoSync(t) ==
    /\ status = "ok"
    /\ Install(meta_info_sync(Cur, t, Depth))
    /\ last' = Call("meta_info_sync", t, Null, NoBlock)
    /\ UNCHANGED nbinds

\* Constants an owner gives a parameter.
Values == {1, 2}

\* p.set_constant(c), on a parameter that is bound to no module.
SetConstant(p, c) ==
    /\ status = "ok"
    /\ backward[p] = Null
    /\ Install(ModuleParam_set_constant(Cur, p, c))
    /\ last' = Call("set_constant", p, c, NoBlock)
    /\ UNCHANGED nbinds

\* keep = p.get(): the owner keeps the returned block.
Get(p) ==
    /\ status = "ok"
    /\ Len(copies) < MaxCopies
    /\ LET r == ModuleParam_get(Cur, p)
       IN /\ WithinBounds(r)
          /\ Install([r EXCEPT !.copies =
                         IF r.status = "ok" /\ r.ret # NoBlock
                         THEN Append(@, [blk |-> r.ret, from |-> p, shared |-> r.rshared])
                         ELSE @])
    /\ last' = Call("get", p, Null, NoBlock)
    /\ UNCHANGED nbinds

\* m.get_buffer()
GetBuffer(m) ==
    /\ status = "ok"
    /\ Install(get_buffer(Cur, m))
    /\ last' = Call("get_buffer", m, Null, NoBlock)
    /\ UNCHANGED nbinds

\* Values an owner writes into a block it holds.
Written == {0}

\* keep = m.get_buffer(): the owner keeps the returned block.
TakeCopy(m) ==
    /\ status = "ok"
    /\ Len(copies) < MaxCopies
    /\ LET r == get_buffer(Cur, m)
       IN Install([r EXCEPT !.copies =
                      IF r.status = "ok" /\ r.ret # NoBlock
                      THEN Append(@, [blk |-> r.ret, from |-> m, shared |-> r.rshared])
                      ELSE @])
    /\ last' = Call("get_buffer", m, Null, NoBlock)
    /\ UNCHANGED nbinds

\* The cell c of block b set to v.
WriteCell(b, c, v) == [b EXCEPT !.data[c] = v]

\* keep->at(c) = v on the i-th block the owner keeps: the write lands in that
\* block's storage, and so in every block that shares it.
WriteCopy(i, c, v) ==
    /\ status = "ok"
    /\ i \in 1..Len(copies)
    /\ c \in 1..Len(copies[i].blk.data)
    /\ LET sh == copies[i].shared
           same(j) == j = i \/ (sh # Null /\ copies[j].shared = sh)
       IN Install([Cur EXCEPT
              !.copies = [j \in 1..Len(copies) |->
                             IF same(j) THEN [copies[j] EXCEPT !.blk = WriteCell(@, c, v)]
                             ELSE copies[j]],
              !.buff = [m \in Objects |->
                           IF m = sh /\ buff[m] # NoBlock THEN WriteCell(buff[m], c, v)
                           ELSE buff[m]]])
    /\ last' = Call("write", Null, i, NoBlock)
    /\ UNCHANGED nbinds

\* The owner destroys the blocks it keeps.
Release ==
    /\ status = "ok"
    /\ copies # << >>
    /\ Install([Cur EXCEPT !.copies = << >>])
    /\ last' = Call("release", Null, Null, NoBlock)
    /\ UNCHANGED nbinds

\* m.set_buffer(b)
SetBuffer(m, b) ==
    /\ status = "ok"
    /\ Install(set_buffer(Cur, m, b))
    /\ last' = Call("set_buffer", m, Null, b)
    /\ UNCHANGED nbinds

\* m.set_rbuffer(&b)
SetRBuffer(m, b) ==
    /\ status = "ok"
    /\ kind[m] = "buffer"
    /\ gbuff[m] # b
    /\ Install(BufferModule_set_rbuffer(Cur, m, b))
    /\ last' = Call("set_rbuffer", m, Null, b)
    /\ UNCHANGED nbinds

\* m.get_info()->out_buffer = n
SetOutBuffer(m, n) ==
    /\ status = "ok"
    /\ Install([Cur EXCEPT !.info[m].out_buffer = n])
    /\ last' = Call("set_out_buffer", m, Null, NoBlock)
    /\ UNCHANGED nbinds

\* m.get_info()->channels = c
SetChannels(m, c) ==
    /\ status = "ok"
    /\ Install([Cur EXCEPT !.info[m].channels = c])
    /\ last' = Call("set_channels", m, Null, NoBlock)
    /\ UNCHANGED nbinds

\* ------------------------------------------------------------------ envelopes

\* The values of the k-th envelope an owner adds: 5, 20, 30, ... to start with,
\* and one more to stop with.
StartValue(k) == IF k = 1 THEN 5 ELSE 10 * k

StopValue(k) == StartValue(k) + 1

\* A ConstantEnvelope after set_start_time(a), set_stop_time(b) and the values.
Envelope(k, a, b) ==
    [start_time |-> a, stop_time |-> b,
     start_value |-> StartValue(k), stop_value |-> StopValue(k)]

\* The ChainEnvelope and its clock.
EnvCur == [envs |-> envs, current |-> current, sample |-> sample, stream |-> stream]

\* ChainTimer::get_time: the clock time of sample count n.
Time(n) == n * TicksPerSample

\* An envelope that treats its stop_time as passed one sample late.
Ended_late(e, t) == e.stop_time # Never /\ t > e.stop_time

\* An envelope that takes the sentinel for a stop_time like any other.
Ended_sentinel(e, t) == t >= e.stop_time

\* The envelope e has ended at time t; one with the sentinel never has.
Ended(e, t) == e.stop_time # Never /\ t >= e.stop_time

\* ConstantEnvelope: start_value at every time.
ConstantEnvelope_value(e, t) == e.start_value

\* The sample a ChainEnvelope produces at time t: the current envelope's value,
\* and its stop_value once it has ended.
ChainEnvelope_value(c, t) ==
    LET e == c.envs[c.current]
    IN IF Ended(e, t) THEN e.stop_value ELSE ConstantEnvelope_value(e, t)

\* A cursor that moves on as soon as the current envelope has ended, whether
\* or not the next one has started.
ChainEnvelope_advance_early(c) ==
    IF Ended(c.envs[c.current], Time(c.sample)) /\ c.current < Len(c.envs)
    THEN [c EXCEPT !.current = @ + 1] ELSE c

\* The cursor after the clock advanced: on the next envelope when the current
\* one has ended and the next one has started.
ChainEnvelope_advance(c) ==
    LET e == c.envs[c.current]
        t == Time(c.sample)
    IN IF /\ Ended(e, t)
          /\ c.current < Len(c.envs)
          /\ c.envs[c.current + 1].start_time <= t
       THEN [c EXCEPT !.current = @ + 1] ELSE c

\* A get_time_inc() that advances the clock first and returns the new time.
ChainTimer_get_time_inc_after(c) ==
    [time |-> Time(c.sample + 1), c |-> [c EXCEPT !.sample = @ + 1]]

\* ChainTimer::get_time_inc: the clock's time returned, and the clock advanced
\* by one sample.
ChainTimer_get_time_inc(c) ==
    [time |-> Time(c.sample), c |-> [c EXCEPT !.sample = @ + 1]]

\* One sample written at the clock's time, and the clock advanced by one sample.
ChainEnvelope_write(c) ==
    LET r == ChainTimer_get_time_inc(c)
    IN [r.c EXCEPT !.stream = Append(@, ChainEnvelope_value(c, r.time))]

RECURSIVE ChainEnvelope_fill(_, _)
\* n samples written, the cursor moved after each.
ChainEnvelope_fill(c, n) ==
    IF n = 0 THEN c
    ELSE ChainEnvelope_fill(ChainEnvelope_advance(ChainEnvelope_write(c)), n - 1)

RECURSIVE ChainEnvelope_write_all(_, _)
\* n samples written with the cursor where it is.
ChainEnvelope_write_all(c, n) ==
    IF n = 0 THEN c ELSE ChainEnvelope_write_all(ChainEnvelope_write(c), n - 1)

\* A process() that moves the cursor between blocks only.
ChainEnvelope_process_per_block(c, n) ==
    ChainEnvelope_advance(ChainEnvelope_write_all(c, n))

\* ChainEnvelope::process: one block of n samples.
ChainEnvelope_process(c, n) == ChainEnvelope_fill(c, n)

\* A next_envelope() that goes back to the first envelope after the last.
ChainEnvelope_next_envelope_wraps(c) ==
    [c EXCEPT !.current = IF @ < Len(c.envs) THEN @ + 1 ELSE 1]

\* A next_envelope() that waits for the current envelope to end.
ChainEnvelope_next_envelope_timed(c) ==
    IF /\ c.current < Len(c.envs)
       /\ c.current = 0 \/ Ended(c.envs[c.current], Time(c.sample))
    THEN [c EXCEPT !.current = @ + 1] ELSE c

\* ChainEnvelope::next_envelope: the cursor on the next envelope added, when
\* there is one.
ChainEnvelope_next_envelope(c) ==
    IF c.current < Len(c.envs) THEN [c EXCEPT !.current = @ + 1] ELSE c

\* ChainEnvelope::add_envelope: the envelope appended.
ChainEnvelope_add_envelope(c, e) == [c EXCEPT !.envs = Append(@, e)]

\* A start() that puts the cursor on the envelope added last.
ChainEnvelope_start_last(c) == [c EXCEPT !.current = Len(c.envs)]

\* ChainEnvelope::get_current: the envelope the cursor is on.
ChainEnvelope_get_current(c) == c.envs[c.current]

\* ChainEnvelope::start: the first envelope added becomes current.
ChainEnvelope_start(c) == ChainEnvelope_next_envelope(c)

\* BaseEnvelope::remaining_samples: the whole samples between the clock's time
\* and the envelope's stop_time.
remaining_samples(c) ==
    LET r == (c.envs[c.current].stop_time - Time(c.sample)) \div TicksPerSample
    IN IF r < 0 THEN 0 ELSE r

\* A SetValue that compares each sample's clock time with its stop_time.
SetValue_process_at_clock(c, n) ==
    LET e == c.envs[c.current]
    IN [c EXCEPT !.stream = @ \o [i \in 1..n |->
                                     IF Time(c.sample + i - 1) < e.stop_time
                                     THEN e.start_value ELSE e.stop_value],
                 !.sample = @ + n]

\* A SetValue that counts the samples before stop_time from the start of each
\* block instead of from the clock.
SetValue_process_per_block(c, n) ==
    LET e == c.envs[c.current]
        r == e.stop_time \div TicksPerSample
    IN [c EXCEPT !.stream = @ \o [i \in 1..n |->
                                     IF i <= r THEN e.start_value ELSE e.stop_value],
                 !.sample = @ + n]

\* SetValue::process: one block of n samples, start_value for the samples that
\* remain before stop_time and stop_value for the rest.
SetValue_process(c, n) ==
    LET e == c.envs[c.current]
        k == IF remaining_samples(c) < n THEN remaining_samples(c) ELSE n
    IN [c EXCEPT !.stream = @ \o [i \in 1..n |->
                                     IF i <= k THEN e.start_value ELSE e.stop_value],
                 !.sample = @ + n]

\* ChainTimer::set_sample: the clock moved to sample count k.
ChainTimer_set_sample(c, k) == [c EXCEPT !.sample = k]

\* A ConstantEnvelope that gives its stop_value once the clock has reached its
\* stop_time.
ConstantEnvelope_process_until_stop(c, n) ==
    LET e == c.envs[c.current]
    IN [c EXCEPT !.stream = @ \o [i \in 1..n |->
                                     IF Time(c.sample) < e.stop_time
                                     THEN e.start_value ELSE e.stop_value]]

\* ConstantEnvelope::process: one block of n samples, each the start_value;
\* the clock is not read.
ConstantEnvelope_process(c, n) ==
    [c EXCEPT !.stream = @ \o [i \in 1..n |-> c.envs[c.current].start_value]]

\* BaseEnvelope::time_diff and BaseEnvelope::val_diff
time_diff(e) == e.stop_time - e.start_time

val_diff(e) == e.stop_value - e.start_value

\* LinearRamp at time t:
\*   start_value + val_diff * (t - start_time) / time_diff,
\* kept exact as the multiple of 1 / time_diff it is (the value times time_diff).
LinearRamp_value(e, t) == e.start_value * time_diff(e) + val_diff(e) * (t - e.start_time)

\* One sample of the ramp written at the clock's time (get_time_inc), and the
\* clock advanced by one sample.
LinearRamp_write(c) ==
    LET r == ChainTimer_get_time_inc(c)
    IN [r.c EXCEPT !.stream = Append(@, LinearRamp_value(c.envs[c.current], r.time))]

RECURSIVE LinearRamp_fill(_, _)
LinearRamp_fill(c, n) == IF n = 0 THEN c ELSE LinearRamp_fill(LinearRamp_write(c), n - 1)

\* A LinearRamp that takes the time from the start of each block instead of
\* from the clock.
LinearRamp_process_per_block(c, n) ==
    [c EXCEPT !.stream = @ \o [i \in 1..n |->
                                  LinearRamp_value(c.envs[c.current], Time(i - 1))],
              !.sample = @ + n]

\* LinearRamp::process: one block of n samples.
LinearRamp_process(c, n) == LinearRamp_fill(c, n)

\* The modules, which a call on the ChainEnvelope leaves alone.
modvars == << kind, backward, forward, chain, info, buff, phase, gbuff, in, buffs, out, copies,
              params, value, const_mod, default_channels, log, returned, returned_mod,
              status, nbinds >>

EnvInstall(c, lv) ==
    /\ envs' = c.envs
    /\ current' = c.current
    /\ sample' = c.sample
    /\ stream' = c.stream
    /\ live' = lv
    /\ UNCHANGED << modvars, reader, length, extra >>

\* The time from which an owner places the next envelope: where the last one
\* added stops (or starts, when it never stops), and not before now once the
\* ChainEnvelope plays.
Earliest ==
    LET e == envs[Len(envs)]
        after == IF envs = << >> THEN 0
                 ELSE IF e.stop_time = Never THEN e.start_time ELSE e.stop_time
        now == IF current > 0 THEN Time(sample) ELSE 0
    IN IF after > now THEN after ELSE now

\* chain.add_envelope(&env), env set to [a, b) or to [a, never)
AddEnvelope(a, b) ==
    /\ Len(envs) < MaxSegments
    /\ a >= Earliest
    /\ b = Never \/ b > a
    /\ EnvInstall(ChainEnvelope_add_envelope(EnvCur, Envelope(Len(envs) + 1, a, b)),
                  live \/ current > 0)
    /\ last' = Call("add_envelope", Null, Len(envs) + 1, NoBlock)

\* chain.start()
EnvStart ==
    /\ current = 0
    /\ envs # << >>
    /\ EnvInstall(ChainEnvelope_start(EnvCur), live)
    /\ last' = Call("env_start", Null, Null, NoBlock)

\* chain.get_info()->buff_size = n; chain.meta_process()
EnvProcess(n) ==
    /\ current > 0
    /\ sample + n <= MaxSamples
    /\ EnvInstall(ChainEnvelope_process(EnvCur, n), live)
    /\ last' = Call("env_process", Null, n, NoBlock)

\* chain.next_envelope()
NextEnvelope ==
    /\ current > 0
    /\ EnvInstall(ChainEnvelope_next_envelope(EnvCur), TRUE)
    /\ last' = Call("next_envelope", Null, Null, NoBlock)

\* env.get_time_inc()
GetTimeInc ==
    /\ sample < MaxSamples
    /\ LET r == ChainTimer_get_time_inc(EnvCur)
       IN /\ EnvInstall(r.c, live)
          /\ last' = Call("get_time_inc", Null, r.time, NoBlock)

\* val.get_info()->buff_size = n; val.meta_process(), val a SetValue
StepProcess(n) ==
    /\ current = 1
    /\ sample + n <= MaxSamples
    /\ EnvInstall(SetValue_process(EnvCur, n), live)
    /\ last' = Call("step_process", Null, n, NoBlock)

\* lin.get_info()->buff_size = n; lin.meta_process(), lin a LinearRamp whose
\* stop_time is after the block's last sample
RampProcess(n) ==
    /\ current = 1
    /\ sample + n <= MaxSamples
    /\ Time(sample + n - 1) < envs[1].stop_time
    /\ EnvInstall(LinearRamp_process(EnvCur, n), live)
    /\ last' = Call("ramp_process", Null, n, NoBlock)

\* cnst.meta_process(), cnst a ConstantEnvelope whose block has n samples
ConstantProcess(n) ==
    /\ current = 1
    /\ Len(stream) + n <= MaxSamples
    /\ EnvInstall(ConstantEnvelope_process(EnvCur, n), live)
    /\ last' = Call("constant_process", Null, n, NoBlock)

\* cnst.get_timer()->set_sample(k)
SetSample(k) ==
    /\ current = 1
    /\ k # sample
    /\ EnvInstall(ChainTimer_set_sample(EnvCur, k), live)
    /\ last' = Call("set_sample", Null, k, NoBlock)

\* ------------------------------------------------------------------ timer

\* nano: the nanoseconds in a second.
Nano == 1000000000

\* The sample rate of a ChainTimer nobody has configured.
DefaultRate == 44100

\* ChainTimer: the whole nanoseconds per sample (frame) at a sample rate, the
\* int64 division dropping the fraction.
nano_per_frame(rate) == Nano \div rate

\* (s * Nano + ns) / d in 64-bit arithmetic, computed in parts that stay within
\* 32 bits: s whole seconds are s * (Nano / d) samples and s * (Nano % d)
\* nanoseconds over.
WideDiv(s, ns, d) == s * (Nano \div d) + (s * (Nano % d) + ns) \div d

\* A remaining_samples() that counts in samples of the exact period
\* 10^9 / rate: the time left times the rate, in seconds.
remaining_samples_by_rate(secs, n, rate) == secs * rate - n

\* BaseEnvelope::remaining_samples with stop_time at `secs` whole seconds and
\* the clock at sample n of a timer at `rate`:
\* (stop_time - get_time()) / nano_per_frame, get_time() being n * nano_per_frame.
BaseEnvelope_remaining_samples(secs, n, rate) ==
    WideDiv(secs, 0 - n * nano_per_frame(rate), nano_per_frame(rate))

\* env.set_stop_time(nano * secs); env.remaining_samples(), the clock at sample
\* n, within the first second and not past the stop_time
RemainingSamples(secs, n, rate) ==
    /\ n * nano_per_frame(rate) <= Nano
    /\ secs = 0 => n = 0
    /\ remaining' = BaseEnvelope_remaining_samples(secs, n, rate)
    /\ last' = Call("remaining_samples", Null, [stop |-> secs, n |-> n, rate |-> rate], NoBlock)
    /\ UNCHANGED << modvars, envs, current, sample, stream, live, reader, length, getter, lat >>

\* ------------------------------------------------------------------ wave files

\* A WaveReader before start(): nothing read, its stream closed; failed is what
\* a start() tells its owner, who gets no return value and no exception.
NoReader ==
    [size |-> 0, format |-> 0, channels |-> 0, samplerate |-> 0, byterate |-> 0,
     blockalign |-> 0, bits_per_sample |-> 0, open |-> FALSE, failed |-> FALSE]

\* WaveReader::start on a stream that holds the header h and the format chunk
\* h.form: the three comparisons of the header are made and change nothing.
WaveReader_start(r, h) ==
    LET started == [r EXCEPT !.open = TRUE]
        riff == IF h.chunk_id # "RIFF" THEN started ELSE started
        wave == IF h.format # "WAVE" THEN riff ELSE riff
        sized == [wave EXCEPT !.size = h.chunk_size]
        fmt == IF h.fmt_id # "fmt " THEN sized ELSE sized
    IN [fmt EXCEPT !.format = h.form.format,
                   !.channels = h.form.channels,
                   !.samplerate = h.form.sample_rate,
                   !.byterate = h.form.byte_rate,
                   !.blockalign = h.form.block_align,
                   !.bits_per_sample = h.form.bits_per_sample]

\* WaveReader::stop
WaveReader_stop(r) == [r EXCEPT !.open = FALSE]

WaveInstall(r) ==
    /\ reader' = r
    /\ UNCHANGED << modvars, envs, current, sample, stream, live, length, extra >>

\* reader.start(), the reader's stream holding a file that begins with h
WaveStart(h) ==
    /\ ~reader.open
    /\ WaveInstall(WaveReader_start(reader, h))
    /\ last' = Call("wave_start", Null, h, NoBlock)

\* reader.stop()
WaveStop ==
    /\ reader.open
    /\ WaveInstall(WaveReader_stop(reader))
    /\ last' = Call("wave_stop", Null, Null, NoBlock)

\* The chunk header a read at the end of the stream leaves: no id, no size.
NoHead == [id |-> "", size |-> 0]

\* WaveReader::read_chunk_header: the next eight bytes of the stream taken as a
\* chunk id and a chunk size, whatever they are a part of.
WaveReader_read_chunk_header(g) ==
    [head |-> IF g.pos <= Len(g.file) THEN g.file[g.pos] ELSE NoHead,
     g |-> [g EXCEPT !.pos = IF @ <= Len(g.file) THEN @ + 1 ELSE @, !.headers = @ + 1]]

\* stream->read(tdata.data(), n): the stream moved on by n words of eight
\* bytes, or to its end.
StreamRead(g, n) ==
    [g EXCEPT !.pos = IF @ + n <= Len(g.file) THEN @ + n ELSE Len(g.file) + 1]

\* One pass of the while (true) loop of WaveReader::get_data: a chunk header is
\* read; a chunk that is not "data" is left at once (continue), its body still
\* ahead in the stream; the bytes of a "data" chunk are read into tdata and
\* looked at, and the loop goes on. No pass returns.
WaveReader_get_data_pass(g) ==
    LET r == WaveReader_read_chunk_header(g)
    IN IF r.head.id # "data" THEN r.g
       ELSE [StreamRead(r.g, r.head.size) EXCEPT !.data = @ + 1]

GetterInstall(g) ==
    /\ getter' = g
    /\ UNCHANGED << modvars, envs, current, sample, stream, live, reader, length,
                    remaining, lat >>

\* The reader is given a stream that holds f behind the wave header.
OpenFile(f) ==
    /\ getter = NoCall
    /\ GetterInstall([getter EXCEPT !.file = f])
    /\ last' = Call("open", Null, Null, NoBlock)

\* reader.get_data() is called.
GetData ==
    /\ getter.pc = "idle"
    /\ getter.file # << >>
    /\ GetterInstall([getter EXCEPT !.pc = "reading"])
    /\ last' = Call("get_data", Null, Null, NoBlock)

\* The call makes one pass of its loop.
GetDataPass ==
    /\ getter.pc = "reading"
    /\ getter.headers < MaxHeaders
    /\ GetterInstall(WaveReader_get_data_pass(getter))
    /\ last' = Call("get_data_pass", Null, Null, NoBlock)

\* ------------------------------------------------------------------ latency

\* int64_t / int in C++: the quotient with the fraction dropped, for b > 0.
TruncDiv(a, b) == IF a >= 0 THEN a \div b ELSE 0 - ((0 - a) \div b)

\* LatencyModule::meta_process, an operation that took t nanoseconds with a
\* latency of d nanoseconds and brought n samples: the Counter counts it, the
\* totals grow by t and d.
LatencyModule_meta_process(l, t, d, n) ==
    [l EXCEPT !.processed = @ + 1, !.samples = @ + n,
              !.total_time = @ + t, !.total_latency = @ + d]

\* LatencyModule::reset: Counter::reset (m_processed = 0; m_samples = 0) and
\* the totals cleared.
LatencyModule_reset(l) ==
    [l EXCEPT !.processed = 0, !.samples = 0, !.total_time = 0, !.total_latency = 0]

\* What the integer division total / processed() leaves: the quotient; with
\* processed() = 0 the division is undefined, and a build either traps
\* (o = "trap") or goes on with 0 (o = "zero").
Quotient(l, total, o) ==
    IF l.processed # 0 THEN [l EXCEPT !.average = TruncDiv(total, l.processed)]
    ELSE IF o = "trap" THEN [l EXCEPT !.failed = TRUE]
    ELSE [l EXCEPT !.average = 0]

\* LatencyModule::average_time: total_operation_time / processed()
LatencyModule_average_time(l, o) == Quotient(l, l.total_time, o)

\* LatencyModule::average_latency: total_operation_latency / processed()
LatencyModule_average_latency(l, o) == Quotient(l, l.total_latency, o)

LatInstall(l) ==
    /\ lat' = l
    /\ UNCHANGED << modvars, envs, current, sample, stream, live, reader, length,
                    remaining, getter >>

\* lat.meta_process(), the operation taking t nanoseconds with latency d
LatencyMetaProcess(t, d) ==
    /\ ~lat.failed
    /\ lat.processed < MaxOps
    /\ LatInstall(LatencyModule_meta_process(lat, t, d, DefaultFrames))
    /\ last' = Call("latency_meta_process", Null, [time |-> t, latency |-> d], NoBlock)

\* lat.reset()
LatencyReset ==
    /\ ~lat.failed
    /\ lat # LatencyModule_reset(lat)
    /\ LatInstall(LatencyModule_reset(lat))
    /\ last' = Call("latency_reset", Null, Null, NoBlock)

\* lat.average_time()
AverageTime ==
    /\ ~lat.failed
    /\ \E o \in {"trap", "zero"} : LatInstall(LatencyModule_average_time(lat, o))
    /\ last' = Call("average_time", Null, Null, NoBlock)

\* lat.average_latency()
AverageLatency ==
    /\ ~lat.failed
    /\ \E o \in {"trap", "zero"} : LatInstall(LatencyModule_average_latency(lat, o))
    /\ last' = Call("average_latency", Null, Null, NoBlock)

\* ------------------------------------------------------------------ transforms

\* A length_ft that rounds the half up.
length_ft_rounded(n) == (n + 1) \div 2 + 1

\* length_ft: the number of frequency bins of a real signal of n samples, in
\* int arithmetic.
length_ft(n) == n \div 2 + 1

\* length_ift: the number of samples m frequency bins give back.
length_ift(m) == (m - 1) * 2

\* length_ft(n)
LengthFt(n) ==
    /\ length' = length_ft(n)
    /\ last' = Call("length_ft", Null, n, NoBlock)
    /\ UNCHANGED << modvars, envs, current, sample, stream, live, reader, extra >>

\* length_ift(m)
LengthIft(m) ==
    /\ length' = length_ift(m)
    /\ last' = Call("length_ift", Null, m, NoBlock)
    /\ UNCHANGED << modvars, envs, current, sample, stream, live, reader, extra >>

\* ------------------------------------------------------------------ specifications

\* The fields of freshly constructed modules: ChainInfo pointers c, and dc the
\* channel count create_buffer() receives by default.
Fresh(c, dc) ==
    [backward |-> [m \in Objects |-> Null],
     forward |-> [m \in Objects |-> Null],
     chain |-> [m \in Objects |-> IF m \in Modules THEN c[m] ELSE m],
     info |-> [m \in Objects |-> [out_buffer |-> DefaultFrames, channels |-> dc]],
     buff |-> [m \in Objects |-> NoBlock],
     phase |-> [m \in Objects |-> 0],
     gbuff |-> [m \in Objects |-> NoBlock],
     in |-> [m \in Objects |-> << >>],
     buffs |-> [m \in Objects |-> << >>],
     out |-> [m \in Objects |-> << >>],
     copies |-> << >>,
     value |-> [m \in Objects |-> 0],
     const_mod |-> [m \in Objects |-> FALSE],
     log |-> << >>, status |-> "ok", ret |-> NoBlock, rmod |-> Null, rshared |-> Null]

\* Every ModuleParam, in the order a ParamModule is given them at construction.
ParamsInOrder == [i \in 1..NumParams |-> NumModules + i]

\* The dynamic types k of the modules, and every ModuleParam a "param".
WithParams(k) == [m \in Objects |-> IF m \in Modules THEN k[m] ELSE "param"]

\* The modules start in state s with module types k.
ModulesStartAs(k, dc, s) ==
    /\ kind = WithParams(k)
    /\ default_channels = dc
    /\ backward = s.backward
    /\ forward = s.forward
    /\ chain = s.chain
    /\ info = s.info
    /\ buff = s.buff
    /\ phase = s.phase
    /\ gbuff = s.gbuff
    /\ in = s.in
    /\ buffs = s.buffs
    /\ out = s.out
    /\ copies = s.copies
    /\ params = [m \in Objects |-> IF WithParams(k)[m] = "parammod" THEN ParamsInOrder ELSE << >>]
    /\ value = s.value
    /\ const_mod = s.const_mod
    /\ reader = NoReader
    /\ length = 0
    /\ remaining = 0
    /\ getter = NoCall
    /\ lat = NoLatency
    /\ log = << >>
    /\ last = Call("construct", Null, Null, NoBlock)
    /\ returned = NoBlock
    /\ returned_mod = Null
    /\ status = "ok"
    /\ nbinds = 0

\* The program starts in state s with module types k and a ChainEnvelope
\* without envelopes.
StartsAs(k, dc, s) ==
    /\ ModulesStartAs(k, dc, s)
    /\ envs = << >>
    /\ current = 0
    /\ sample = 0
    /\ stream = << >>
    /\ live = FALSE

\* The state after construction.
Constructed(k, c, dc) == StartsAs(k, dc, Fresh(c, dc))

RECURSIVE Assembled(_, _)
\* The chain x <- x-1 <- ... <- 1 bound terminal-first:
\* x.bind(x-1), then (x-1).bind(x-2), ..., then 2.bind(1).
Assembled(s, x) == IF x <= 1 THEN s ELSE Assembled(bind(s, x, x - 1), x - 1)

\* Every module constructed with a ChainInfo of its own.
OwnChain == [m \in Modules |-> m]

\* One oscillator and plain modules: the chains an owner builds and pulls.
ChainKinds == [m \in Modules |-> IF m = 1 THEN "source" ELSE "plain"]

\* An owner that extends a chain at its open ends: x has no predecessor yet and
\* m no successor.
OpenEnds(x, m) == x # m /\ backward[x] = Null /\ forward[m] = Null

Init == Constructed(ChainKinds, OwnChain, 1)

Next ==
    \/ \E x, m \in Modules : OpenEnds(x, m) /\ Bind(x, m)
    \/ \E t \in Modules : MetaProcess(t)
    \/ \E m \in Modules : GetBuffer(m)
    \/ \E m \in Modules, b \in OwnerBlocks : SetBuffer(m, b)

Spec == Init /\ [][Next]_vars

\* The four oscillators of fund_oscillator.cpp.
Oscillators == {"sine", "source", "sawtooth", "triangle"}

\* An oscillator of dynamic type k and plain modules.
OscKinds(k) == [m \in Modules |-> IF m = 1 THEN k ELSE "plain"]

InitOsc == \E k \in Oscillators : Constructed(OscKinds(k), OwnChain, 1)

\* An oscillator pulled in blocks of any size by an owner that takes its
\* block, or gives it another one, between the pulls.
NextOsc ==
    \/ \E n \in 1..MaxFrames : SetOutBuffer(1, n)
    \/ MetaProcess(1)
    \/ GetBuffer(1)
    \/ \E b \in OwnerBlocks : SetBuffer(1, b)

SpecOsc == InitOsc /\ [][NextOsc]_vars

\* The chunks of a wave file, their sizes in words of eight bytes.
Chunks == {[id |-> "LIST", size |-> 0], [id |-> "LIST", size |-> 1],
           [id |-> "data", size |-> 1], [id |-> "data", size |-> 2]}

\* The words of a chunk's body, which hold no chunk id.
Body(n) == [i \in 1..n |-> [id |-> "....", size |-> 0]]

RECURSIVE Words(_)
\* The stream that holds the chunks cs: for each its header, then its body.
Words(cs) ==
    IF cs = << >> THEN << >>
    ELSE << Head(cs) >> \o Body(Head(cs).size) \o Words(Tail(cs))

\* Wave files of one chunk, or more.
Files == UNION {{Words(cs) : cs \in [1..n -> Chunks]} : n \in 1..MaxChunks}

\* A WaveReader given a file and asked for its data.
NextData ==
    \/ \E f \in Files : OpenFile(f)
    \/ GetData
    \/ GetDataPass

SpecData == Init /\ [][NextData]_vars

\* The times and the latencies of the operations a LatencyModule measures; a
\* latency is negative when the chain runs ahead of its clock.
OpTimes == {1, 3}

OpLatencies == {-3, 0, 2}

\* A LatencyModule timing operations, reset and asked for its averages.
NextLatency ==
    \/ \E t \in OpTimes, d \in OpLatencies : LatencyMetaProcess(t, d)
    \/ LatencyReset
    \/ AverageTime
    \/ AverageLatency

SpecLatency == Init /\ [][NextLatency]_vars

\* A BufferModule and plain modules.
RepeatKinds == [m \in Modules |-> IF m = 1 THEN "buffer" ELSE "plain"]

\* The blocks an owner gives a BufferModule to repeat: 7, 8, ... in one channel.
RBuffers == {[frames |-> n, channels |-> 1, data |-> [i \in 1..n |-> 6 + i]] : n \in 1..MaxFrames}

\* The BufferModule and the module an owner binds it to.
RepeatChain == 1..2

InitRepeat == StartsAs(RepeatKinds, 1, Assembled(Fresh(OwnChain, 1), 2))

\* A chain behind a BufferModule, pulled for cycle after cycle by an owner that
\* keeps one block it was handed at a time and writes into it.
NextRepeat ==
    \/ \E b \in RBuffers : SetRBuffer(1, b)
    \/ \E t \in RepeatChain : MetaProcess(t)
    \/ copies = << >> /\ TakeCopy(2)
    \/ \E c \in 1..MaxFrames, v \in Written : WriteCopy(1, c, v)
    \/ Release

SpecRepeat == InitRepeat /\ [][NextRepeat]_vars

\* The same chains, started and stopped by their owner.
NextLife ==
    \/ \E x, m \in Modules : OpenEnds(x, m) /\ Bind(x, m)
    \/ \E t \in Modules : MetaStart(t)
    \/ \E t \in Modules : MetaStop(t)

SpecLife == Init /\ [][NextLife]_vars

\* Binding alone, up to MaxBinds calls in any order and between any two
\* modules; a module is constructed with a ChainInfo of its own or with none.
InitBind ==
    \E c \in [Modules -> {NoChain} \cup Modules] :
        /\ \A m \in Modules : c[m] \in {NoChain, m}
        /\ Constructed(ChainKinds, c, 1)

NextBind == \E x, m \in Modules : nbinds < MaxBinds /\ Bind(x, m)

SpecBind == InitBind /\ [][NextBind]_vars

\* The chain NumModules <- ... <- 2 <- 1, module 1 the oscillator, assembled
\* terminal-first, then configured and pulled by its owner.
InitInfo ==
    \E dc \in 1..MaxChannels :
        StartsAs(ChainKinds, dc, Assembled(Fresh(OwnChain, dc), NumModules))

NextInfo ==
    \/ \E m \in Modules, n \in 1..MaxFrames : SetOutBuffer(m, n)
    \/ \E m \in Modules, c \in 1..MaxChannels : SetChannels(m, c)
    \/ \E t \in Modules : MetaStart(t)
    \/ \E t \in Modules : MetaProcess(t)
    \/ \E m \in Modules : GetBuffer(m)

SpecInfo == InitInfo /\ [][NextInfo]_vars

\* The same chain, its source given a frame count, any of its modules a channel
\* count, and started.
InitSync == StartsAs(ChainKinds, 1, Assembled(Fresh(OwnChain, 1), NumModules))

NextSync ==
    \/ \E n \in 1..MaxFrames : SetOutBuffer(1, n)
    \/ \E m \in Modules, c \in 1..MaxChannels : SetChannels(m, c)
    \/ \E t \in Modules : MetaStart(t)

SpecSync == InitSync /\ [][NextSync]_vars

\* A ModuleMixDown (the last module), an oscillator (module 1), and a second
\* input that is an oscillator or a plain module; plain modules beyond these.
MixKinds(k2) ==
    [m \in Modules |-> IF m = NumModules THEN "mixdown"
                       ELSE IF m = 1 THEN "source"
                       ELSE IF m = 2 THEN k2 ELSE "plain"]

InitMix == \E k2 \in {"source", "plain"} : Constructed(MixKinds(k2), OwnChain, 1)

\* A mixer takes any other module as an input; the other modules are chained at
\* their open ends.
MixBindable(x, m) == x # m /\ (kind[x] = "mixdown" \/ OpenEnds(x, m))

NextMix ==
    \/ \E x, m \in Modules : MixBindable(x, m) /\ Bind(x, m)
    \/ \E t \in Modules : MetaProcess(t)

SpecMix == InitMix /\ [][NextMix]_vars

\* A ModuleMixDown (the last module) and oscillators.
SizeKinds == [m \in Modules |-> IF m = NumModules THEN "mixdown" ELSE "source"]

InitSize == Constructed(SizeKinds, OwnChain, 1)

\* A mixer given oscillators as inputs and pulled, by an owner that sets the
\* block size of the mixer and of the first oscillator.
NextSize ==
    \/ \E m \in 1..2 : Bind(NumModules, m)
    \/ \E m \in {1, NumModules}, n \in 1..MaxFrames :
           info[m].out_buffer # n /\ SetOutBuffer(m, n)
    \/ MetaProcess(NumModules)

SpecSize == InitSize /\ [][NextSize]_vars

\* The state s with every module's info sized to n frames, as an owner sets it
\* before the chain is built.
Sized(s, n) == [s EXCEPT !.info = [m \in Objects |-> [@[m] EXCEPT !.out_buffer = n]]]

\* An oscillator (module 1), a ModuleMixUp (module 2) and plain modules that
\* pull from it, all sized alike.
UpKinds ==
    [m \in Modules |-> IF m = 1 THEN "source" ELSE IF m = 2 THEN "mixup" ELSE "plain"]

\* The mix-up is bound to the oscillator: 2.bind(1).
InitUp ==
    \E n \in 1..MaxFrames, dc \in 1..MaxChannels :
        StartsAs(UpKinds, dc, bind(Sized(Fresh(OwnChain, dc), n), 2, 1))

\* A mix-up takes any number of successors, each a module with no predecessor.
UpBindable(x, m) == kind[x] = "plain" /\ backward[x] = Null /\ kind[m] = "mixup"

NextUp ==
    \/ \E x, m \in Modules : UpBindable(x, m) /\ Bind(x, m)
    \/ \E t \in Modules : MetaProcess(t)
    \/ \E m \in Modules : kind[m] = "mixup" /\ TakeCopy(m)
    \/ \E i \in 1..MaxCopies, c \in 1..(MaxFrames * MaxChannels), v \in Written :
           WriteCopy(i, c, v)
    \/ Release

SpecUp == InitUp /\ [][NextUp]_vars

\* A ModuleMixUp (module 1) and plain modules, bound freely: each plain module
\* can register with the mix-up, more than once, and with the others.
FanKinds == [m \in Modules |-> IF m = 1 THEN "mixup" ELSE "plain"]

InitFan ==
    \E c \in [Modules -> {NoChain} \cup Modules] :
        /\ \A m \in Modules : c[m] \in {NoChain, m}
        /\ Constructed(FanKinds, c, 1)

NextFan == \E x, m \in Modules : nbinds < MaxBinds /\ Bind(x, m)

SpecFan == InitFan /\ [][NextFan]_vars

\* An oscillator (module 1), a ParamModule (module 2) that owns every
\* ModuleParam, and a third module that is a second oscillator or a plain
\* module; plain modules beyond these.
ParamKinds(k3) ==
    [m \in Modules |-> IF m = 1 THEN "source"
                       ELSE IF m = 2 THEN "parammod"
                       ELSE IF m = 3 THEN k3 ELSE "plain"]

InitParam == \E k3 \in {"source", "plain"} : Constructed(ParamKinds(k3), OwnChain, 1)

RECURSIVE ForwardEnd(_, _)
\* The module the forward links from x end in.
ForwardEnd(x, fuel) ==
    IF forward[x] = Null \/ fuel = 0 THEN x ELSE ForwardEnd(forward[x], fuel - 1)

RECURSIVE BehindHas(_, _, _)
\* A module of dynamic type k is m or is behind m.
BehindHas(m, k, fuel) ==
    \/ kind[m] = k
    \/ (backward[m] # Null /\ fuel > 0 /\ BehindHas(backward[m], k, fuel - 1))

\* Chains and parameter sub-chains are extended at their open ends; a parameter
\* that has no constant binds a module, and no sub-chain of a parameter holds
\* the ParamModule that owns the parameter.
ParamBindable(x, m) ==
    /\ x # m
    /\ kind[x] # "source"
    /\ kind[m] # "param"
    /\ backward[x] = Null
    /\ forward[m] = Null
    /\ ~const_mod[x]
    /\ ~(kind[ForwardEnd(x, Depth)] = "param" /\ BehindHas(m, "parammod", Depth))

\* A ParamModule, its parameters and their sub-chains assembled, configured,
\* started and stopped.
NextParam ==
    \/ \E x \in Objects, m \in Modules : ParamBindable(x, m) /\ Bind(x, m)
    \/ \E p \in Params : SetConstant(p, 1)
    \/ \E t \in Modules : MetaStart(t)
    \/ \E t \in Modules : MetaStop(t)
    \/ \E t \in Modules : MetaInfoSync(t)

SpecParam == InitParam /\ [][NextParam]_vars

\* The first parameter given a constant or a sub-chain, and read by its owner.
NextGet ==
    \/ \E x \in Objects, m \in Modules :
           /\ kind[x] = "plain" \/ x = ParamsInOrder[1]
           /\ ParamBindable(x, m) /\ Bind(x, m)
    \/ \E c \in Values : SetConstant(ParamsInOrder[1], c)
    \/ Get(ParamsInOrder[1])
    \/ Release

InitGet ==
    \E k3 \in {"source", "plain"}, n \in 1..MaxFrames :
        StartsAs(ParamKinds(k3), 1, Sized(Fresh(OwnChain, 1), n))

SpecGet == InitGet /\ [][NextGet]_vars

\* An owner places an envelope right after the last one or one sample later,
\* and makes it last half a sample, one sample, or for ever.
Gaps == {0, TicksPerSample}

Durations == {TicksPerSample \div 2, TicksPerSample}

\* A ChainEnvelope given envelopes, started, pulled in blocks of any size, and
\* advanced by hand.
NextEnv ==
    \/ \E g \in Gaps, d \in Durations \cup {Never} :
           AddEnvelope(Earliest + g, IF d = Never THEN Never ELSE Earliest + g + d)
    \/ EnvStart
    \/ \E n \in 1..MaxSamples : EnvProcess(n)
    \/ NextEnvelope

SpecEnv == Init /\ [][NextEnv]_vars

\* A ChainEnvelope given envelopes and started.
NextStart ==
    \/ \E g \in Gaps, d \in Durations \cup {Never} :
           /\ current = 0
           /\ AddEnvelope(Earliest + g, IF d = Never THEN Never ELSE Earliest + g + d)
    \/ EnvStart

SpecStart == Init /\ [][NextStart]_vars

\* A ChainEnvelope given back-to-back envelopes and pulled, whose clock its
\* owner also reads and advances.
NextClock ==
    \/ \E d \in {TicksPerSample, Never} :
           AddEnvelope(Earliest, IF d = Never THEN Never ELSE Earliest + d)
    \/ EnvStart
    \/ \E n \in 1..MaxSamples : EnvProcess(n)
    \/ GetTimeInc

SpecClock == Init /\ [][NextClock]_vars

\* The values an owner gives an envelope to start and to stop with.
Levels == {0, 1, 5}

\* The stop times an owner gives it: on a sample, between two samples, and
\* after the last sample pulled.
StopTimes == 0..(Time(MaxSamples) + 1)

\* An envelope of its own, from time 0 to b and from value v to w, its clock
\* at sample 0.
Alone(b, v, w) ==
    /\ ModulesStartAs(ChainKinds, 1, Fresh(OwnChain, 1))
    /\ envs = << [start_time |-> 0, stop_time |-> b, start_value |-> v, stop_value |-> w] >>
    /\ current = 1
    /\ sample = 0
    /\ stream = << >>
    /\ live = FALSE

InitStep == \E b \in StopTimes, v, w \in Levels : v # w /\ Alone(b, v, w)

\* A SetValue pulled in blocks of any size.
NextStep == \E n \in 1..MaxSamples : StepProcess(n)

SpecStep == InitStep /\ [][NextStep]_vars

\* A ConstantEnvelope pulled in blocks of any size, its clock moved by its
\* owner to before and to after its stop_time.
NextConst ==
    \/ \E n \in 1..MaxSamples : ConstantProcess(n)
    \/ \E k \in 0..MaxSamples : SetSample(k)

SpecConst == InitStep /\ [][NextConst]_vars

\* 0.05, the values of a ramp being counted in hundredths.
Tolerance == 5

\* The values an owner gives a ramp: 0, 0.05, 0.1 and 1.
RampLevels == {0, Tolerance, 2 * Tolerance, 100}

InitRamp == \E b \in StopTimes, v, w \in RampLevels : b > 0 /\ v < w /\ Alone(b, v, w)

\* A rising LinearRamp pulled in blocks of any size up to its stop_time.
NextRamp == \E n \in 1..MaxSamples : RampProcess(n)

SpecRamp == InitRamp /\ [][NextRamp]_vars

\* The format chunks of 16-bit files: PCM or float, mono or stereo, at 44100 or
\* 48000 samples a second.
Formats ==
    { [format |-> f, channels |-> c, sample_rate |-> r, byte_rate |-> r * c * 2,
       block_align |-> c * 2, bits_per_sample |-> 16] :
          f \in {1, 3}, c \in {1, 2}, r \in {44100, 48000} }

\* The files a reader is started on: well-formed ones, and ones whose RIFF id,
\* WAVE tag or "fmt " chunk id is something else.
Headers ==
    [chunk_id : {"RIFF", "RIFX"}, chunk_size : {36, 44}, format : {"WAVE", "AVI "},
     fmt_id : {"fmt ", "LIST"}, form : Formats]

\* A WaveReader started on one file after another.
NextWave ==
    \/ \E h \in Headers : WaveStart(h)
    \/ WaveStop

SpecWave == Init /\ [][NextWave]_vars

\* The longest signal whose lengths are computed.
MaxSize == 64

\* The length functions called on signals of any size and on any number of bins.
NextLength ==
    \/ \E n \in 0..MaxSize : LengthFt(n)
    \/ \E m \in 1..MaxSize : LengthIft(m)

SpecLength == Init /\ [][NextLength]_vars

\* The longest stop_time, in seconds, whose remaining samples are counted.
MaxSeconds == 5

\* The sample rates of the timers: the tests' 100 and 1000, which divide 10^9,
\* and audio rates, which do not.
Rates == {100, 1000, 22050, DefaultRate, 48000}

\* remaining_samples() called at any clock position before the stop_time.
NextRemain ==
    \E secs \in 0..MaxSeconds, n \in 0..MaxSamples, rate \in Rates :
        RemainingSamples(secs, n, rate)

SpecRemain == Init /\ [][NextRemain]_vars

\* ------------------------------------------------------------------ chains

RECURSIVE PathFrom(_, _)
\* The modules a recursion started on t visits, t first and the source last;
\* empty when the backward links from t reach no source.
PathFrom(t, fuel) ==
    IF kind[t] = "source" THEN << t >>
    ELSE IF kind[t] # "plain" \/ backward[t] = Null \/ fuel = 0 THEN << >>
    ELSE LET r == PathFrom(backward[t], fuel - 1)
         IN IF r = << >> THEN << >> ELSE << t >> \o r

Path(t) == PathFrom(t, NumModules)

\* t is the terminal module of a linear chain that ends in a source.
LinearChain(t) == Path(t) # << >>

Returned(o, t) == status = "ok" /\ last.op = o /\ last.mod = t

\* ------------------------------------------------------------------ claims

\* C1: get_buffer() returns the block the module holds and leaves the module
\* holding none, so a second get_buffer() right after the first returns no
\* block; set_buffer(b) makes b the held block.
C1_BlockTransfer ==
    [][ /\ \A m \in Modules :
             (last'.op = "get_buffer" /\ last'.mod = m)
                 => (returned' = buff[m] /\ buff'[m] = NoBlock)
        /\ \A m \in Modules :
             (last.op = "get_buffer" /\ last.mod = m
                /\ last'.op = "get_buffer" /\ last'.mod = m)
                 => returned' = NoBlock
        /\ \A m \in Modules :
             (last'.op = "set_buffer" /\ last'.mod = m) => buff'[m] = last'.blk
      ]_vars

\* A get_buffer() that handed a block to the owner.
C1_Witness ==
    last.op = "get_buffer" /\ returned # NoBlock /\ buff[last.mod] = NoBlock

\* C2: when meta_process() returns on the terminal module of a linear chain that
\* ends in a source, the terminal module holds a block and every module behind
\* it holds none.
C2_OneBlockAtTerminal ==
    \A t \in Modules :
        (Returned("meta_process", t) /\ LinearChain(t))
            => /\ buff[t] # NoBlock
               /\ \A i \in 2..Len(Path(t)) : buff[Path(t)[i]] = NoBlock

\* A second pull in a row on a chain of three modules has returned.
C2_Witness ==
    /\ Returned("meta_process", last.mod)
    /\ Len(Path(last.mod)) >= 3
    /\ phase[Path(last.mod)[Len(Path(last.mod))]] >= 2 * DefaultFrames
    /\ buff[last.mod] # NoBlock

\* What one pull on the chain P (terminal first, source last) logs when every
\* module is entered from the terminal back to the source and then, from the
\* source forward, each module takes its predecessor's block and runs its hook.
PullLog(P) ==
    LET n == Len(P) IN
    [j \in 1..(3 * n - 1) |->
        IF j <= n THEN Ev("meta_process", P[j], Null)
        ELSE IF j = n + 1 THEN Ev("process", P[n], Null)
        ELSE LET q == j - (n + 1)
                 k == n - ((q + 1) \div 2)
             IN IF q % 2 = 1 THEN Ev("take", P[k], P[k + 1])
                ELSE Ev("process", P[k], Null)]

\* C3: one pull on a linear chain runs the predecessor's meta_process() to
\* completion, then moves the predecessor's block, then runs the local hook, so
\* every process() hook runs exactly once, from the source to the terminal.
C3_PullOrder ==
    \A t \in Modules :
        (Returned("meta_process", t) /\ LinearChain(t)) => log = PullLog(Path(t))

\* A pull on a chain of three modules has returned.
C3_Witness ==
    /\ Returned("meta_process", last.mod)
    /\ Len(Path(last.mod)) >= 3
    /\ Len(log) >= 8

\* The hooks h run once per module of the chain P, source first, terminal last.
HookLog(h, P) == [j \in 1..Len(P) |-> Ev(h, P[Len(P) + 1 - j], Null)]

\* C4: meta_start() and meta_stop() on the terminal module of a linear chain run
\* every module's start() (stop()) hook exactly once, source first and terminal
\* last.
C4_StartStopOrder ==
    \A t \in Modules :
        /\ (Returned("meta_start", t) /\ LinearChain(t)) => log = HookLog("start", Path(t))
        /\ (Returned("meta_stop", t) /\ LinearChain(t)) => log = HookLog("stop", Path(t))

\* meta_stop() on a chain of three modules has returned.
C4_Witness ==
    /\ Returned("meta_stop", last.mod)
    /\ Len(Path(last.mod)) >= 3
    /\ Len(log) >= 3

\* C5: x.bind(m) makes m the predecessor of x and x the successor of m, gives m
\* the ChainInfo x references, returns m, and changes no link or ChainInfo
\* pointer of any other module.
C5_BindEffect ==
    [][ \A x, m \in Modules :
          (last'.op = "bind" /\ last'.mod = x /\ last'.arg = m)
              => /\ backward'[x] = m
                 /\ forward'[m] = x
                 /\ chain'[m] = chain'[x]
                 /\ chain'[x] = chain[x]
                 /\ returned_mod' = m
                 /\ \A y \in Modules \ {x, m} :
                        /\ backward'[y] = backward[y]
                        /\ forward'[y] = forward[y]
                        /\ chain'[y] = chain[y]
      ]_vars

\* A bind that replaced the predecessor's own ChainInfo by the successor's.
C5_Witness ==
    /\ last.op = "bind"
    /\ last.mod # last.arg
    /\ backward[last.mod] = last.arg
    /\ chain[last.arg] = chain[last.mod]
    /\ chain[last.arg] \notin {NoChain, last.arg}
    /\ returned_mod = last.arg

RECURSIVE BackFrom(_, _)
\* The modules reached from t over the backward links, t first.
BackFrom(t, fuel) ==
    IF backward[t] = Null \/ fuel = 0 THEN << t >>
    ELSE << t >> \o BackFrom(backward[t], fuel - 1)

\* The binds made so far assemble one linear chain of all modules, t its terminal.
AssembledChain(t) ==
    LET P == BackFrom(t, NumModules) IN
    /\ forward[t] = Null
    /\ Len(P) = NumModules
    /\ {P[i] : i \in 1..Len(P)} = Modules
    /\ \A i \in 1..(Len(P) - 1) : forward[P[i + 1]] = P[i]

\* C6: once binds, made in any order, have assembled one linear chain, every
\* module of it references the same ChainInfo.
C6_OneDescriptor ==
    \A t \in Modules :
        AssembledChain(t) => \A a, b \in Modules : chain[a] = chain[b]

\* C7: the block a pull on a chain returns has the frame count and the channel
\* count of the chain's descriptor at the time of the pull, read here as the
\* info of the module that sized the block.
C7_BlockMatchesDescriptor ==
    \A t \in Modules :
        (Returned("meta_process", t) /\ LinearChain(t))
            => LET src == Path(t)[Len(Path(t))] IN
               /\ buff[t].frames = info[src].out_buffer
               /\ buff[t].channels = info[src].channels

\* The blocks the last cycle of mixer M collected: one per input, the newest
\* entries of buffs.
CycleBlocks(M) ==
    SubSeq(buffs[M], Len(buffs[M]) - Len(in[M]) + 1, Len(buffs[M]))

\* C8: on every cycle of a mixer, the first and every later one, output sample i
\* is the sum over the inputs of this cycle's input sample i.
C8_MixIsSumOfCycle ==
    \A M \in Modules :
        (kind[M] = "mixdown" /\ Returned("meta_process", M))
            => \A i \in 1..Len(buff[M].data) : buff[M].data[i] = SumAt(CycleBlocks(M), i)

\* C9: a mixer's collected blocks are scoped to one cycle, so it never holds
\* more collected blocks than it has inputs.
C9_CollectedWithinCycle ==
    \A M \in Modules : kind[M] = "mixdown" => Len(buffs[M]) <= Len(in[M])

\* What one cycle of mixer M logs when it runs the local hook of each input in
\* bind order, takes that input's block, and then runs its own hook.
MixLog(M) ==
    LET n == Len(in[M]) IN
    [j \in 1..(2 * n + 2) |->
        IF j = 1 THEN Ev("meta_process", M, Null)
        ELSE IF j = 2 * n + 2 THEN Ev("process", M, Null)
        ELSE LET k == j \div 2
             IN IF j % 2 = 0 THEN Ev("process", in[M][k], Null)
                ELSE Ev("collect", M, in[M][k])]

\* C10: ModuleMixDown::meta_process() runs the local process() hook of each
\* input once, in bind order, takes its block, and runs neither an input's
\* meta_process() nor any hook of an input's predecessors.
C10_MixRunsLocalHooksOnly ==
    \A M \in Modules :
        (kind[M] = "mixdown" /\ Returned("meta_process", M)) => log = MixLog(M)

\* A cycle of a mixer with two inputs, one of which has a predecessor.
C10_Witness ==
    /\ last.mod \in Modules
    /\ kind[last.mod] = "mixdown"
    /\ Returned("meta_process", last.mod)
    /\ Len(in[last.mod]) >= 2
    /\ \E k \in 1..Len(in[last.mod]) : backward[in[last.mod][k]] # Null

\* C11: get_buffer() on a mix-up that retains a block returns a block equal to
\* the retained one and leaves the retained block held and unchanged, on the
\* first call of a cycle and on every later one.
C11_MixUpKeepsBlock ==
    [][ \A m \in Modules :
          (kind[m] = "mixup" /\ buff[m] # NoBlock
             /\ last'.op = "get_buffer" /\ last'.mod = m)
              => /\ status' = "ok"
                 /\ returned' = buff[m]
                 /\ buff'[m] = buff[m]
      ]_vars

\* Two get_buffer() calls in a row on a mix-up, within one cycle, each returned
\* the retained block's contents.
C11_Witness ==
    /\ last.op = "get_buffer"
    /\ Len(copies) = 2
    /\ copies[1].from = copies[2].from
    /\ kind[copies[1].from] = "mixup"
    /\ buff[copies[1].from] # NoBlock
    /\ copies[1].blk = buff[copies[1].from]
    /\ copies[2].blk = buff[copies[1].from]
    /\ returned = buff[copies[1].from]

\* C12: a write to one block the owner keeps changes no block any module
\* retains and no other block the owner keeps.
C12_CopiesAreDistinct ==
    [][ last'.op = "write"
          => /\ buff' = buff
             /\ Len(copies') = Len(copies)
             /\ \A j \in 1..Len(copies) : j # last'.arg => copies'[j] = copies[j]
      ]_vars

\* Of two copies of one retained block, one was written: it now differs from the
\* other copy and from the retained block, which still agree.
C12_Witness ==
    /\ last.op = "write"
    /\ Len(copies) = 2
    /\ copies[1].from = copies[2].from
    /\ kind[copies[1].from] = "mixup"
    /\ copies[1].blk # copies[2].blk
    /\ \E j \in 1..2 :
          /\ j # last.arg
          /\ copies[j].blk = buff[copies[j].from]
          /\ copies[last.arg].blk # buff[copies[j].from]

\* How often the last owner call logged the event e, and where it logged it.
Count(e) == Cardinality({i \in DOMAIN log : log[i] = e})

Pos(e) == CHOOSE i \in DOMAIN log : log[i] = e

Before(e, f) == Count(e) = 1 /\ Count(f) = 1 /\ Pos(e) < Pos(f)

\* The modules meta_info_sync() on t configures: t and the modules behind it.
Configured(t) == BackFrom(t, Depth)

\* C13 as stated: in the configure step every module with a predecessor runs its
\* own info_sync() hook after its predecessor's, whatever its type.
C13_PredecessorConfiguredFirst ==
    \A t \in Modules :
        Returned("meta_info_sync", t)
            => \A i \in 1..(Len(Configured(t)) - 1) :
                   Before(Ev("info_sync", Configured(t)[i + 1], Null),
                          Ev("info_sync", Configured(t)[i], Null))

\* C13 amended: a module that is not a ParamModule runs its info_sync() hook
\* after its predecessor's configure step; a ParamModule runs its own
\* info_sync() first, then conf_mod() on each parameter, and its predecessor's
\* configure step last.
C13_ConfigureOrder ==
    \A t \in Modules :
        Returned("meta_info_sync", t)
            => \A i \in 1..(Len(Configured(t)) - 1) :
                   LET m == Configured(t)[i]
                       b == Configured(t)[i + 1]
                   IN IF kind[m] = "parammod"
                      THEN /\ Before(Ev("info_sync", m, Null), Ev("info_sync", b, Null))
                           /\ \A k \in DOMAIN params[m] :
                                  /\ Before(Ev("info_sync", m, Null),
                                            Ev("conf_mod", params[m][k], m))
                                  /\ Before(Ev("conf_mod", params[m][k], m),
                                            Ev("info_sync", b, Null))
                      ELSE Before(Ev("info_sync", b, Null), Ev("info_sync", m, Null))

\* The configure step returned on a plain module whose predecessor is a
\* ParamModule with a predecessor of its own.
C13_Witness ==
    /\ last.mod \in Modules
    /\ Returned("meta_info_sync", last.mod)
    /\ kind[last.mod] = "plain"
    /\ backward[last.mod] # Null
    /\ kind[backward[last.mod]] = "parammod"
    /\ Len(Configured(last.mod)) >= 3
    /\ Count(Ev("info_sync", last.mod, Null)) = 1

\* C14: each time a ParamModule's start() hook runs it calls meta_start() once
\* on every parameter of its array, and each parameter's own start() hook runs;
\* likewise stop() with meta_stop(), and meta_info_sync() with conf_mod(owner).
C14_FanOut ==
    \A t, m \in Modules :
        (kind[m] = "parammod" /\ status = "ok" /\ last.mod = t)
            => \A k \in DOMAIN params[m] :
                   LET param == params[m][k] IN
                   /\ last.op = "meta_start"
                        => /\ Count(Ev("meta_start", param, m)) = Count(Ev("start", m, Null))
                           /\ Count(Ev("start", param, Null)) = Count(Ev("start", m, Null))
                   /\ last.op = "meta_stop"
                        => /\ Count(Ev("meta_stop", param, m)) = Count(Ev("stop", m, Null))
                           /\ Count(Ev("stop", param, Null)) = Count(Ev("stop", m, Null))
                   /\ last.op = "meta_info_sync"
                        => /\ Count(Ev("conf_mod", param, m)) = Count(Ev("info_sync", m, Null))
                           /\ Count(Ev("info_sync", param, Null)) = Count(Ev("info_sync", m, Null))

\* meta_start() returned on a chain with a ParamModule whose first parameter
\* returns a constant and whose second is bound to an oscillator.
C14_Witness ==
    /\ last.mod \in Modules
    /\ Returned("meta_start", last.mod)
    /\ \E m \in Modules :
          /\ kind[m] = "parammod"
          /\ Len(params[m]) >= 2
          /\ Count(Ev("start", m, Null)) = 1
          /\ const_mod[params[m][1]]
          /\ backward[params[m][2]] # Null
          /\ Count(Ev("meta_start", params[m][2], m)) = 1

\* The block an oscillator whose phase is now ph wrote in its last process(),
\* sized by its info.
LastOscillatorBlock(src) ==
    LET n == info[src].out_buffer * default_channels
    IN [frames |-> info[src].out_buffer, channels |-> default_channels,
        data |-> [i \in 1..n |-> SquareSample(phase[src] - n + i - 1)]]

\* C15: get() on a parameter bound to a sub-chain runs one full pull of the
\* sub-chain through the parameter, returns the block the sub-chain produced,
\* and leaves the parameter and every module of the sub-chain holding none.
C15_GetPullsSubChain ==
    \A p \in Params :
        (Returned("get", p) /\ ~const_mod[p])
            => /\ backward[p] # Null
               /\ LinearChain(backward[p])
               /\ LET P == << p >> \o Path(backward[p]) IN
                  /\ log = PullLog(P)
                  /\ returned = LastOscillatorBlock(P[Len(P)])
                  /\ \A i \in 1..Len(P) : buff[P[i]] = NoBlock

\* get() returned the block of a sub-chain of two modules.
C15_Witness ==
    /\ last.mod \in Params
    /\ Returned("get", last.mod)
    /\ ~const_mod[last.mod]
    /\ backward[last.mod] # Null
    /\ Len(Path(backward[last.mod])) >= 2
    /\ returned # NoBlock
    /\ Len(returned.data) >= 2

\* C16: get() on a parameter configured with set_constant() returns a block of
\* the parameter's full size whose every sample is the value last given to
\* set_constant(), which set_constant(d) makes d.
C16_ConstantBlock ==
    [][ \A p \in Params :
          /\ (last'.op = "get" /\ last'.mod = p /\ const_mod[p])
                => /\ status' = "ok"
                   /\ returned'.frames = info[p].out_buffer
                   /\ Len(returned'.data) = info[p].out_buffer * default_channels
                   /\ \A i \in 1..Len(returned'.data) : returned'.data[i] = value[p]
          /\ (last'.op = "set_constant" /\ last'.mod = p)
                => value'[p] = last'.arg /\ const_mod'[p]
      ]_vars

\* Two get() calls around a set_constant(): a block of the first constant, then
\* a block of the second.
C16_Witness ==
    /\ last.op = "get"
    /\ Len(copies) = 2
    /\ copies[1].from = copies[2].from
    /\ const_mod[copies[1].from]
    /\ Len(copies[1].blk.data) >= 2
    /\ \A i \in 1..Len(copies[1].blk.data) : copies[1].blk.data[i] = 1
    /\ \A i \in 1..Len(copies[2].blk.data) : copies[2].blk.data[i] = 2

\* C17: over process(), add_envelope() and next_envelope() calls the cursor of a
\* ChainEnvelope never moves back and never leaves the envelopes added, whose
\* order never changes; next_envelope() moves it by one envelope at most and
\* process() by one envelope per sample at most.
C17_CursorForwardOnly ==
    [][ /\ current' >= current
        /\ current' <= Len(envs')
        /\ Len(envs') >= Len(envs)
        /\ SubSeq(envs', 1, Len(envs)) = envs
        /\ last'.op = "next_envelope" => current' <= current + 1
        /\ last'.op = "env_process" => current' <= current + last'.arg
      ]_vars

\* next_envelope() was called with the cursor on the last of three envelopes,
\* after samples were pulled.
C17_Witness ==
    /\ last.op = "next_envelope"
    /\ Len(envs) = 3
    /\ current = 3
    /\ Len(stream) >= 2

\* C18: while the current envelope has stop_time -1, process() leaves the cursor
\* where it is and every sample it writes is that envelope's start_value.
C18_SentinelHolds ==
    [][ (current > 0 /\ envs[current].stop_time = Never /\ last'.op = "env_process")
          => /\ current' = current
             /\ \A i \in (Len(stream) + 1)..Len(stream') :
                    stream'[i] = envs[current].start_value
      ]_vars

\* Several blocks pulled with the cursor on an envelope that never ends, though
\* the next envelope's start_time has come.
C18_Witness ==
    /\ last.op = "env_process"
    /\ last.arg = 1
    /\ current > 0
    /\ current < Len(envs)
    /\ envs[current].stop_time = Never
    /\ envs[current + 1].start_time <= Time(sample - 1)
    /\ Len(stream) >= 3
    /\ \A i \in 1..Len(stream) : stream[i] = envs[current].start_value

\* The ChainEnvelope with the envelopes it has now, just started.
Restarted ==
    ChainEnvelope_start([envs |-> envs, current |-> 0, sample |-> 0, stream |-> << >>])

\* C19: the samples pulled so far in blocks of any sizes, from envelopes added
\* before start() and with no manual advance, are the samples of one block of
\* as many samples, and the cursor is where that block leaves it.
C19_BlockSizeIndependent ==
    (current > 0 /\ ~live)
        => LET one == ChainEnvelope_process(Restarted, Len(stream))
           IN stream = one.stream /\ current = one.current

\* At least two blocks were pulled, and the last one holds samples of two
\* envelopes.
C19_Witness ==
    /\ last.op = "env_process"
    /\ ~live
    /\ last.arg >= 2
    /\ Len(stream) > last.arg
    /\ stream[Len(stream)] # stream[Len(stream) - 1]
    /\ current >= 2

\* Three Constant envelopes with start values 5, 20 and 30, the first starting
\* at 0, each next one starting where the one before stops, on whole samples.
BackToBack ==
    /\ Len(envs) = 3
    /\ envs[1].start_time = 0
    /\ envs[1].start_value = 5 /\ envs[2].start_value = 20 /\ envs[3].start_value = 30
    /\ \A j \in 1..2 :
          /\ envs[j].stop_time # Never
          /\ envs[j].stop_time % TicksPerSample = 0
          /\ envs[j + 1].start_time = envs[j].stop_time

\* The time t lies in the interval of envelope e.
Within(e, t) == e.start_time <= t /\ (e.stop_time = Never \/ t < e.stop_time)

WrittenBy(e) ==
    \A i \in (Len(stream) + 1)..Len(stream') :
        stream'[i] = IF Ended(e, Time(i - 1)) THEN e.stop_value ELSE e.start_value

StopIndex(e) == e.stop_time \div TicksPerSample

C29_StepAtClockTime ==
    \A i \in 1..Len(stream) :
        stream[i] = IF Time(i - 1) < envs[1].stop_time THEN envs[1].start_value
                    ELSE envs[1].stop_value

\* C29: every sample a process() of a SetValue writes is decided by the clock
\* time t it is taken at, whatever the block: start_value when the sample's
\* whole period ends by stop_time (t + period <= stop_time), stop_value
\* otherwise; with stop_time on a whole sample that is t < stop_time.
C29_StepPerSample ==
    [][ last'.op = "step_process"
          => /\ Len(stream') = Len(stream) + last'.arg
             /\ sample' = sample + last'.arg
             /\ \A i \in 1..last'.arg :
                    LET t == Time(sample + i - 1)
                        e == envs[1]
                    IN /\ stream'[Len(stream) + i] =
                              IF t + TicksPerSample <= e.stop_time THEN e.start_value
                              ELSE e.stop_value
                       /\ e.stop_time % TicksPerSample = 0
                              => stream'[Len(stream) + i] =
                                     IF t < e.stop_time THEN e.start_value
                                     ELSE e.stop_value
      ]_vars

\* The stop_time lies half a sample after the second sample: pulled in a later
\* block, that sample is before stop_time and yet has the stop_value.
C29_Witness ==
    /\ last.op = "step_process"
    /\ Len(stream) = 2
    /\ last.arg = 1
    /\ envs[1].stop_time = Time(1) + 1
    /\ Time(1) < envs[1].stop_time
    /\ stream = << envs[1].start_value, envs[1].stop_value >>

\* All samples before the ramp's stop_time have been pulled.
RampPulled == sample > 0 /\ Time(sample) >= envs[1].stop_time

\* The per-sample delta (B - A) / (R * D) of the ramp, as a multiple of
\* 1 / time_diff like the samples: R * D = time_diff / TicksPerSample.
Delta(e) == val_diff(e) * TicksPerSample

\* C23 as stated: the samples of a rising ramp increase by the same delta
\* (B - A) / (R * D), and the last sample before stop_time is within 0.05 of B.
C23_RampEndsNearB ==
    /\ \A i \in 1..(Len(stream) - 1) : stream[i + 1] - stream[i] = Delta(envs[1])
    /\ RampPulled
          => envs[1].stop_value * time_diff(envs[1]) - stream[Len(stream)]
                 <= Tolerance * time_diff(envs[1])

\* C23: the samples of a rising ramp pulled in blocks of any size start at A
\* and increase strictly, each by the same delta (B - A) / (R * D); the last
\* sample before stop_time is below B by one delta at most, hence within 0.05
\* of B when the delta is at most 0.05.
C23_ConstantDelta ==
    LET e == envs[1]
    IN /\ stream # << >> => stream[1] = e.start_value * time_diff(e)
       /\ \A i \in 1..(Len(stream) - 1) :
              /\ stream[i + 1] > stream[i]
              /\ stream[i + 1] - stream[i] = Delta(e)
       /\ RampPulled
              => LET below == e.stop_value * time_diff(e) - stream[Len(stream)]
                 IN /\ below > 0
                    /\ below <= Delta(e)
                    /\ Delta(e) <= Tolerance * time_diff(e)
                           => below <= Tolerance * time_diff(e)

\* A ramp from 0 to 0.1 over three samples was pulled in two blocks: its last
\* sample is within 0.05 of 0.1.
C23_Witness ==
    /\ last.op = "ramp_process"
    /\ last.arg < 3
    /\ RampPulled
    /\ envs[1].stop_time = Time(3)
    /\ envs[1].start_value = 0 /\ envs[1].stop_value = 2 * Tolerance
    /\ Len(stream) = 3
    /\ 3 * stream[3] = 2 * envs[1].stop_value * time_diff(envs[1])

\* A header whose RIFF id, WAVE format tag or "fmt " chunk id is wrong.
Malformed(h) == h.chunk_id # "RIFF" \/ h.format # "WAVE" \/ h.fmt_id # "fmt "

\* C24: a start() that reads a malformed header tells its owner of the failure
\* and leaves the reader's size, format, channel count, sample rate, byte rate,
\* block align and bits per sample as they were.
C24_MalformedHeaderRejected ==
    [][ (last'.op = "wave_start" /\ Malformed(last'.arg))
          => /\ reader'.failed
             /\ [reader' EXCEPT !.open = reader.open, !.failed = reader.failed] = reader
      ]_vars

\* C25: after any bind() calls the backward links hold no cycle: the walk over
\* them that meta_process(), meta_start() and meta_stop() make from any module
\* comes to a module without predecessor, within as many steps as there are
\* modules.
C25_BindAcyclic ==
    \A m \in Modules :
        LET P == BackFrom(m, NumModules)
        IN backward[P[Len(P)]] = Null

\* C26: length_ft(n) is n / 2 + 1 with the half dropped, length_ift(m) is
\* (m - 1) * 2, and length_ift applied to the result of length_ft(n) returns n
\* for every even n >= 2.
C26_LengthRoundTrip ==
    [][ /\ last'.op = "length_ft"
            => 2 * (length' - 1) \in {last'.arg, last'.arg - 1}
        /\ last'.op = "length_ift"
            => length' + 2 = 2 * last'.arg
        /\ (/\ last.op = "length_ft" /\ last'.op = "length_ift"
             /\ last'.arg = length
             /\ last.arg % 2 = 0 /\ last.arg >= 2)
            => length' = last.arg
      ]_vars

\* length_ift(6) returned 10, 6 being length_ft(10).
C26_Witness ==
    /\ last.op = "length_ift"
    /\ last.arg = 6
    /\ length = 10

\* C27: when meta_start() has returned on the terminal module of a linear chain,
\* the info of every module of the chain is the info of the chain's source,
\* which the call did not change.
C27_StartCopiesInfo ==
    [][ \A t \in Modules :
          (last'.op = "meta_start" /\ last'.mod = t /\ status' = "ok" /\ LinearChain(t))
              => LET src == Path(t)[Len(Path(t))] IN
                 /\ info'[src] = info[src]
                 /\ \A i \in 1..Len(Path(t)) : info'[Path(t)[i]] = info'[src]
                 /\ \A m \in Modules :
                        (\A i \in 1..Len(Path(t)) : Path(t)[i] # m) => info'[m] = info[m]
      ]_vars

\* meta_start() returned on the last module of the chain of all modules, the
\* source configured with two frames and two channels, unlike the default.
C27_Witness ==
    /\ Returned("meta_start", NumModules)
    /\ Len(Path(NumModules)) = NumModules
    /\ info[1] = [out_buffer |-> 2, channels |-> 2]
    /\ \A m \in Modules : info[m] = info[1]

\* The sample of value v, taken at time t, is the one envelope e gives then: its
\* stop_value once it has ended.
HeldFrom(e, v, t) == v = IF Ended(e, t) THEN e.stop_value ELSE e.start_value

\* C28: when the current envelope has ended at the clock's time and, through
\* the block pulled, no next envelope exists or the next one has not started,
\* process() writes the whole block, every sample the ended envelope's
\* stop_value. In any block, a sample comes from an envelope the cursor is on
\* during the block and, unless the cursor was there before the block, one
\* that has started: the next envelope's value is never written early.
C28_HoldLast ==
    [][ last'.op = "env_process"
          => /\ Len(stream') = Len(stream) + last'.arg
             /\ (/\ Ended(envs[current], Time(sample))
                 /\ \/ current = Len(envs)
                    \/ envs[current + 1].start_time > Time(sample + last'.arg - 1))
                   => \A i \in (Len(stream) + 1)..Len(stream') :
                          stream'[i] = envs[current].stop_value
             /\ \A i \in 1..last'.arg :
                    \E k \in current..current' :
                        /\ HeldFrom(envs[k], stream'[Len(stream) + i], Time(sample + i - 1))
                        /\ k = current \/ envs[k].start_time <= Time(sample + i - 1)
      ]_vars

\* The first envelope ends after one sample and the second starts a sample
\* later: the samples are 5, then the stop_value 6 held, then 20.
C28_Witness ==
    /\ last.op = "env_process"
    /\ ~live
    /\ Len(envs) >= 2
    /\ envs[1].stop_time = Time(1)
    /\ envs[2].start_time = Time(2)
    /\ stream = << envs[1].start_value, envs[1].stop_value, envs[2].start_value >>

\* C30: get_time_inc() returns the clock's time before the advance and leaves
\* the clock one sample, and strictly, later; a process() of a block of F
\* samples writes F samples and advances the clock by F samples; no call moves
\* the clock back.
C30_ClockAdvances ==
    [][ /\ sample' >= sample
        /\ last'.op = "get_time_inc"
              => /\ last'.arg = Time(sample)
                 /\ sample' = sample + 1
                 /\ Time(sample') > last'.arg
        /\ last'.op = "env_process"
              => /\ sample' = sample + last'.arg
                 /\ Len(stream') = Len(stream) + last'.arg
      ]_vars

\* A block of two samples was pulled after the owner had advanced the clock by
\* one sample itself.
C30_Witness ==
    /\ last.op = "env_process"
    /\ last.arg = 2
    /\ Len(stream) = 2
    /\ sample = 3

\* C31: remaining_samples() is the time left until stop_time divided by the
\* whole nanoseconds per sample, fractions dropped: with p the largest integer
\* such that p * rate <= 10^9, it is the largest r such that r samples of p
\* nanoseconds fit in the time left (stated for stop times up to 2 s, whose
\* nanoseconds fit in 32 bits). It is never less than the time left times the
\* rate, and equal to it when the rate divides 10^9. At the default rate, with
\* 5 s left, it is 220507, not 5 * 44100.
C31_RemainingSamples ==
    [][ last'.op = "remaining_samples"
          => LET a == last'.arg
                 p == nano_per_frame(a.rate)
                 left == a.stop * Nano - a.n * p
             IN /\ p * a.rate <= Nano /\ (p + 1) * a.rate > Nano
                /\ remaining' >= 0
                /\ a.stop <= 2
                      => remaining' * p <= left /\ (remaining' + 1) * p > left
                /\ remaining' >= a.stop * a.rate - a.n
                /\ Nano % a.rate = 0 => remaining' = a.stop * a.rate - a.n
                /\ (a.stop = 5 /\ a.n = 0 /\ a.rate = DefaultRate) => remaining' = 220507
      ]_vars

\* remaining_samples() returned 220507 for 5 s at the default rate, the clock
\* at 0.
C31_Witness ==
    /\ last.op = "remaining_samples"
    /\ last.arg = [stop |-> 5, n |-> 0, rate |-> DefaultRate]
    /\ remaining = 220507

\* C32: every x.bind(M) on a ModuleMixUp M appends x to M's successor list and
\* leaves the successors registered before where they are; a bind() on another
\* module leaves the list alone. So the list holds the successors in the
\* order they registered.
C32_SuccessorsAppended ==
    [][ last'.op = "bind"
          => \A M \in Modules :
                 kind[M] = "mixup"
                     => IF last'.arg = M
                        THEN /\ out'[M] = Append(out[M], last'.mod)
                             /\ SubSeq(out'[M], 1, Len(out[M])) = out[M]
                        ELSE out'[M] = out[M]
      ]_vars

\* Module 3, then module 2, registered with the mix-up.
C32_Witness ==
    /\ last.op = "bind"
    /\ last.mod = 2
    /\ last.arg = 1
    /\ out[1] = << 3, 2 >>
    /\ backward[2] = 1 /\ backward[3] = 1

\* C33: start() after one or more add_envelope() calls on an empty
\* ChainEnvelope leaves get_current() the envelope added first, and the
\* envelopes added as they were.
C33_StartOnFirst ==
    [][ last'.op = "env_start"
          => /\ envs' = envs
             /\ current' = 1
             /\ ChainEnvelope_get_current([envs |-> envs', current |-> current']) = envs[1]
             /\ envs[1].start_value = StartValue(1)
      ]_vars

\* start() was called after three envelopes were added: the cursor is on the
\* first, whose values differ from the others'.
C33_Witness ==
    /\ last.op = "env_start"
    /\ Len(envs) = 3
    /\ current = 1
    /\ envs[current].start_value = StartValue(1)
    /\ envs[2].start_value # StartValue(1) /\ envs[3].start_value # StartValue(1)

\* C34: every sample a ConstantEnvelope of its own has written is its
\* start_value, wherever its clock was when the block was pulled, before or
\* after its stop_time; and a pull of n samples writes n samples.
C34_ConstantFills ==
    /\ \A i \in 1..Len(stream) : stream[i] = envs[1].start_value
    /\ last.op = "constant_process" => Len(stream) >= last.arg

\* A block was pulled with the clock at time 0, the clock was moved past the
\* stop_time, and a second block was pulled.
C34_Witness ==
    /\ last.op = "constant_process"
    /\ last.arg = 1
    /\ Len(stream) = 3
    /\ envs[1].stop_time = Time(1)
    /\ Time(sample) > envs[1].stop_time

\* C35: no call but set_rbuffer() changes the block a BufferModule repeats,
\* and every pull of the chain behind it that succeeds brings a block with
\* that block's contents to the module pulled, in cycle after cycle, whatever
\* the owner did to the blocks of earlier cycles.
C35_Repeats ==
    [][ /\ last'.op # "set_rbuffer" => gbuff' = gbuff
        /\ last'.op = "meta_process" /\ status' = "ok"
              => /\ gbuff[1] # NoBlock
                 /\ buff'[last'.mod] = gbuff[1]
      ]_vars

\* The owner kept the block of one cycle and wrote into it, and the next
\* cycle brought the saved contents again.
C35_Witness ==
    /\ last.op = "meta_process"
    /\ last.mod = 2
    /\ gbuff[1].data = << 7, 8 >>
    /\ buff[2] = gbuff[1]
    /\ Len(copies) = 1
    /\ copies[1].from = 2
    /\ copies[1].blk.data = << 0, 8 >>

\* The sample an oscillator of dynamic type k writes at phase p.
Wave(k, p) ==
    CASE k = "sine" -> SineSample(p)
      [] k = "source" -> SquareSample(p)
      [] k = "sawtooth" -> SawtoothSample(p)
      [] k = "triangle" -> TriangleSample(p)

\* C36: a pull of an oscillator, of any of the four types, installs a block of
\* the configured size whatever block the oscillator held, whose i-th sample
\* is the waveform at the phase before the pull plus i - 1, and leaves the
\* phase advanced by the number of samples written; no other call changes the
\* phase. So the phase, 0 at construction, is the number of samples written
\* so far, and a block starts where the block before it stopped.
C36_PhasePerSample ==
    [][ IF last'.op = "meta_process"
        THEN LET n == info[1].out_buffer * default_channels
             IN /\ buff'[1].frames = info[1].out_buffer
                /\ Len(buff'[1].data) = n
                /\ \A i \in 1..n : buff'[1].data[i] = Wave(kind[1], phase[1] + i - 1)
                /\ phase'[1] = phase[1] + n
        ELSE phase' = phase
      ]_vars

\* A SawtoothOscillator was pulled for two blocks of one sample: the second
\* block holds the waveform's second sample.
C36_Witness ==
    /\ kind[1] = "sawtooth"
    /\ last.op = "meta_process"
    /\ info[1].out_buffer = 1
    /\ phase[1] = 2
    /\ buff[1].data = << SawtoothSample(1) >>
    /\ SawtoothSample(1) # SawtoothSample(0)

\* C37: after any bind() calls the links agree: p is the predecessor of m
\* exactly when m is the successor recorded in p.
C37_LinksAgree ==
    \A p, m \in Modules : backward[m] = p <=> forward[p] = m

\* C38: ModuleMixDown::process() never leaves the block it created: no pull of
\* a mixer faults, and every block the mixer has collected has as many samples
\* as the block the mixer put out.
C38_MixWithinBlock ==
    /\ status = "ok"
    /\ last.op = "meta_process"
          => \A k \in 1..Len(buffs[NumModules]) :
                 Len(buffs[NumModules][k].data) = Len(buff[NumModules].data)

\* C39: a get_data() call that has read a "data" chunk returns, and reads no
\* chunk header after it.
C39_GetDataReturns ==
    [][ /\ getter'.data > getter.data => getter'.pc = "returned"
        /\ getter.data > 0 => getter'.headers = getter.headers
      ]_vars

\* C40: average_time() and average_latency() return the running total divided
\* by processed(), the fraction dropped, in every state they are called in:
\* the call ends normally and processed() is not 0.
C40_AverageDefined ==
    [][ /\ last'.op = "average_time"
            => /\ ~lat'.failed
               /\ lat.processed # 0
               /\ lat'.average = TruncDiv(lat.total_time, lat.processed)
        /\ last'.op = "average_latency"
            => /\ ~lat'.failed
               /\ lat.processed # 0
               /\ lat'.average = TruncDiv(lat.total_latency, lat.processed)
      ]_vars

====
